---- MODULE Spec2Model ----
(***************************************************************************)
(* Push-to-talk dictation controller (mickey/tray.py) with its recorder    *)
(* (mickey/recorder.py), transcriber (mickey/transcriber.py), typer        *)
(* (mickey/typer.py) and hotkey listener (mickey/hotkey.py).               *)
(*                                                                         *)
(* Threads: the Qt main thread (event loop: QTimer poll tick and queued    *)
(* signal slots), the pynput listener thread (hotkey callbacks), one       *)
(* transcription worker per stop, one stream-teardown thread per stop and  *)
(* the audio subsystem's callback thread.  One step of a thread is one     *)
(* access to state another thread reads or writes.                         *)
(*                                                                         *)
(* Time is discrete, one unit = 50 ms.  A timestamp field t of the code is *)
(* kept as the elapsed time "time.time() - t", saturated at the only       *)
(* constant it is ever compared with; the timestamp 0 (the epoch) is the   *)
(* saturated value.                                                        *)
(***************************************************************************)
EXTENDS Naturals, Sequences, FiniteSets

\* ---------------------------------------------------------------- bounds
\* hotkey press callbacks in one run
MaxPresses == 2
\* sample blocks buffered in one recording
MaxBlocks == 1
\* the non-zero max_duration tried, in time units
MaxDuration == 2
\* calls the unit harness makes on one Transcriber and one AudioRecorder
MaxCalls == 3
\* characters of one text given to the typer
MaxTextLen == 41
\* fields that differ from the default in one saved Config, and members
\* of one hand-edited document
MaxEdited == 2
\* key events delivered to one HotkeyListener
MaxKeyEvents == 5
\* segments the model returns for one transcribe
MaxSegments == 2
\* characters of one segment text
MaxSegLen == 3

\* ------------------------------------------------------ program constants
\* 0.15 s, the press debounce of _on_hotkey_press
Cooldown == 3
\* 0.5 s, the bounded wait of AudioRecorder.start
CleanupTimeout == 10
\* 0.15 s, the settle sleep of AudioRecorder.start
SettleDelay == 3
\* 0.1 s, FloatingIndicator.MIN_STATE_CHANGE_INTERVAL
MIN_STATE_CHANGE_INTERVAL == 2

\* the separator of " ".join, U+0020
Space == 32
\* TextTyper.CHUNK_SIZE
CHUNK_SIZE == 20
\* time.sleep(0.05) before typing, in ms
FocusDelay == 50
\* the default typing_delay of TextTyper, 0.004 s, in ms
TypingDelay == 4

Ids == 1..MaxPresses
Min(a, b) == IF a < b THEN a ELSE b

VARIABLES
    app_pc,            \* app.main / MickeyApp: "start", "boot", "running",
                       \* "exited", "failed", "aborted"
    lock_fd,           \* app._lock_fd: "none", "locked", or "released"
                       \* (None again after release_lock)
    \* MickeyApp
    is_recording, is_processing, pending_start, pending_stop,
    since_last_stop,   \* time.time() - _last_stop_time, saturated at Cooldown
    notice,            \* tray.showMessage of the current or latest handler
    typer_method,      \* typer.method
    main_pc,           \* position of the main thread
    sigq,              \* queued signal emissions not yet delivered
    \* HotkeyListener and its thread
    hotkey_active, hk_pc,
    \* AudioRecorder
    recording, stream, cleanup_complete, audio_data, max_duration,
    since_start,       \* time.time() - _start_time while _recording, saturated
                       \* at max_duration; 0 while not recording (never read)
    wait_elapsed,      \* time spent in _cleanup_complete.wait(timeout=0.5)
    wait_ok,           \* what that wait returned to the running start()
    origin,            \* history: the presses behind the pending flags
    call,              \* the last call of a harness and its result
    config_file,       \* the content of CONFIG_FILE
    callbacks,         \* HotkeyListener: which callbacks are set, and the
                       \* calls they have received
    sleep_elapsed,     \* time spent in time.sleep(0.15)
    streams,           \* state of every sd.InputStream handle
    opened,            \* number of handles constructed so far
    cleanups,          \* teardown thread of each handle
    \* Transcriber
    transcriber,
    \* transcription workers
    workers,           \* the live transcribe_worker threads
    \* history
    presses,           \* number of press callbacks so far
    press_ctx,         \* what the running press callback found on arrival
    delivered,         \* results delivered since the latest stop
    typed,             \* type_text calls since the latest stop
    lost,              \* workers that ended without emitting
    since_prev_stop,   \* time since the latest stop, saturated at Cooldown
    since_finish,      \* time since the latest _finish_processing, saturated
                       \* at Cooldown
    \* FloatingIndicator
    indicator,         \* "hidden", "recording" or "processing"
    since_state_change \* time.time() - _last_state_change, saturated at
                       \* MIN_STATE_CHANGE_INTERVAL

ctlVars == <<is_recording, is_processing, pending_start, pending_stop,
             since_last_stop, notice, typer_method, main_pc, sigq>>
hkVars == <<hotkey_active, hk_pc, presses, press_ctx>>
recVars == <<recording, stream, cleanup_complete, audio_data, max_duration,
             since_start, wait_elapsed, wait_ok, sleep_elapsed, streams,
             opened, cleanups>>
trVars == <<transcriber>>
wkVars == <<workers>>
histVars == <<delivered, typed, lost, since_prev_stop, since_finish>>
ghostVars == <<origin>>
unitVars == <<call, config_file, callbacks>>
appVars == <<app_pc, lock_fd>>
uiVars == <<indicator, since_state_change>>
vars == <<appVars, uiVars, ctlVars, hkVars, recVars, trVars, wkVars, histVars,
          ghostVars, unitVars>>

\* --------------------------------------------------------- pure functions

\* A loader without the CPU fallback
_ensure_model_NoFallback(tr, o1, o2) ==
    IF tr.model THEN [tr |-> tr, raised |-> "none", attempts |-> 0]
    ELSE IF o1 THEN [tr |-> [tr EXCEPT !.model = TRUE],
                     raised |-> "none", attempts |-> 1]
    ELSE [tr |-> tr, raised |-> "TranscriptionError", attempts |-> 1]

\* A loader that constructs a model on every call
_ensure_model_Reloads(tr, o1, o2) ==
    IF o1 THEN [tr |-> [tr EXCEPT !.model = TRUE],
                raised |-> "none", attempts |-> 1]
    ELSE [tr |-> tr, raised |-> "TranscriptionError", attempts |-> 1]

\* Transcriber._ensure_model; o1, o2: does the first / second WhisperModel
\* construction succeed.  raised: "none", "TranscriptionError" or
\* "Exception" (what the CPU fallback construction lets escape).
_ensure_model(tr, o1, o2) ==
    IF tr.model THEN [tr |-> tr, raised |-> "none", attempts |-> 0]
    ELSE IF o1 THEN [tr |-> [tr EXCEPT !.model = TRUE],
                     raised |-> "none", attempts |-> 1]
    ELSE IF tr.device = "cuda"
         THEN LET cpu == [tr EXCEPT !.device = "cpu", !.compute_type = "int8"]
              IN IF o2 THEN [tr |-> [cpu EXCEPT !.model = TRUE],
                             raised |-> "none", attempts |-> 2]
                 ELSE [tr |-> cpu, raised |-> "Exception", attempts |-> 2]
         ELSE [tr |-> tr, raised |-> "TranscriptionError", attempts |-> 1]

\* A text is the sequence of its code points, "" is <<>>.

\* The characters str.strip() removes: those str.isspace() holds of
Whitespace ==
    (9..13) \cup (28..32) \cup {133, 160, 5760} \cup (8192..8202)
        \cup {8232, 8233, 8239, 8287, 12288}

RECURSIVE lstrip(_)
lstrip(s) ==
    IF s # <<>> /\ Head(s) \in Whitespace THEN lstrip(Tail(s)) ELSE s

RECURSIVE rstrip(_)
rstrip(s) ==
    IF s # <<>> /\ s[Len(s)] \in Whitespace
    THEN rstrip(SubSeq(s, 1, Len(s) - 1)) ELSE s

\* str.strip()
strip(s) == rstrip(lstrip(s))

RECURSIVE join(_, _)
\* sep.join(parts)
join(sep, parts) ==
    IF parts = <<>> THEN <<>>
    ELSE IF Len(parts) = 1 THEN parts[1]
    ELSE parts[1] \o sep \o join(sep, Tail(parts))

\* A join that trims nothing
SegmentsText_Untrimmed(segments) == join(<<Space>>, segments)

\* " ".join(segment.text.strip() for segment in segments), then
\* text.strip()
SegmentsText(segments) ==
    strip(join(<<Space>>,
               [i \in 1..Len(segments) |-> strip(segments[i])]))

\* The outcomes of inference the controller's model tries.  outcome: the
\* model call returns segments ("segments"), self._model.transcribe
\* raises ("raise_call"), or the lazy segments generator raises inside
\* the join ("raise_segments"); segments: the segment texts returned.
Inferences ==
    {[outcome |-> "segments", segments |-> << <<Space, 104, 105>> >>],
     [outcome |-> "segments", segments |-> <<>>],
     [outcome |-> "raise_call", segments |-> <<>>],
     [outcome |-> "raise_segments", segments |-> <<>>]}

\* A transcribe that loads the model before it looks at the audio
transcribe_NoEmptyCheck(tr, audio, o1, o2, inf) ==
    LET e == _ensure_model(tr, o1, o2)
    IN [tr |-> e.tr, raised |-> e.raised, attempts |-> e.attempts,
        text |-> <<>>,
        cause |-> IF e.raised = "none" THEN "none" ELSE "construction"]

\* A transcribe whose try block ends before the join over the segments
transcribe_RawSegments(tr, audio, o1, o2, inf) ==
    IF Len(audio) = 0
    THEN [tr |-> tr, raised |-> "none", attempts |-> 0, text |-> <<>>,
          cause |-> "none"]
    ELSE LET e == _ensure_model(tr, o1, o2)
         IN IF e.raised # "none"
            THEN [tr |-> e.tr, raised |-> e.raised, attempts |-> e.attempts,
                  text |-> <<>>, cause |-> "construction"]
            ELSE IF inf.outcome = "raise_call"
            THEN [tr |-> e.tr, raised |-> "TranscriptionError",
                  attempts |-> e.attempts, text |-> <<>>,
                  cause |-> inf.outcome]
            ELSE IF inf.outcome = "raise_segments"
            THEN [tr |-> e.tr, raised |-> "Exception",
                  attempts |-> e.attempts, text |-> <<>>,
                  cause |-> inf.outcome]
            ELSE [tr |-> e.tr, raised |-> "none", attempts |-> e.attempts,
                  text |-> SegmentsText(inf.segments), cause |-> "none"]

\* Transcriber.transcribe; inf: the outcome of inference, a record like
\* those of Inferences.  cause: what the raised exception was raised from.
transcribe(tr, audio, o1, o2, inf) ==
    IF Len(audio) = 0
    THEN [tr |-> tr, raised |-> "none", attempts |-> 0, text |-> <<>>,
          cause |-> "none"]
    ELSE LET e == _ensure_model(tr, o1, o2)
         IN IF e.raised # "none"
            THEN [tr |-> e.tr, raised |-> e.raised, attempts |-> e.attempts,
                  text |-> <<>>, cause |-> "construction"]
            ELSE IF inf.outcome \in {"raise_call", "raise_segments"}
            THEN [tr |-> e.tr, raised |-> "TranscriptionError",
                  attempts |-> e.attempts, text |-> <<>>,
                  cause |-> inf.outcome]
            ELSE [tr |-> e.tr, raised |-> "none", attempts |-> e.attempts,
                  text |-> SegmentsText(inf.segments), cause |-> "none"]

\* What the typer does to the outside is a sequence of events: a sleep
\* of ms milliseconds, a SendInput call with its array of inputs, or a
\* Controller.type call with its text.
Sleep(ms) == [kind |-> "sleep", ms |-> ms, inputs |-> <<>>, text |-> <<>>]
SendInput(inputs) ==
    [kind |-> "SendInput", ms |-> 0, inputs |-> inputs, text |-> <<>>]
ControllerType(text) ==
    [kind |-> "Controller.type", ms |-> 0, inputs |-> <<>>, text |-> text]

\* Absent text, None: a text no string equals (no character has the
\* code point 0x110000)
None == <<1114112>>

\* A code point sent as one 16-bit unit whatever it is
surrogates_Truncated(code_point) == <<code_point % 65536>>

\* _type_via_sendinput: the code units of one character
surrogates(code_point) ==
    IF code_point > 65535
    THEN <<55296 + ((code_point - 65536) \div 1024),
           56320 + ((code_point - 65536) % 1024)>>
    ELSE <<code_point>>

\* _type_via_sendinput: the key-down and the key-up INPUT of one code unit
KeyPair(scan_code) ==
    <<[wScan |-> scan_code, keyup |-> FALSE],
      [wScan |-> scan_code, keyup |-> TRUE]>>

RECURSIVE ChunkInputs(_)
\* _type_via_sendinput: the inputs list built for one chunk
ChunkInputs(chunk) ==
    IF chunk = <<>> THEN <<>>
    ELSE LET u == surrogates(Head(chunk))
         IN (IF Len(u) = 2 THEN KeyPair(u[1]) \o KeyPair(u[2])
             ELSE KeyPair(u[1]))
            \o ChunkInputs(Tail(chunk))

RECURSIVE SendChunks_TrailingDelay(_, _, _)
\* A loop that sleeps after every chunk
SendChunks_TrailingDelay(text, typing_delay, i) ==
    IF i >= Len(text) THEN <<>>
    ELSE <<SendInput(ChunkInputs(
               SubSeq(text, i + 1, Min(i + CHUNK_SIZE, Len(text)))))>>
         \o (IF typing_delay > 0 THEN <<Sleep(typing_delay)>> ELSE <<>>)
         \o SendChunks_TrailingDelay(text, typing_delay, i + CHUNK_SIZE)

RECURSIVE SendChunks(_, _, _)
\* _type_via_sendinput: for i in range(0, len(text), CHUNK_SIZE), from i on
SendChunks(text, typing_delay, i) ==
    IF i >= Len(text) THEN <<>>
    ELSE <<SendInput(ChunkInputs(
               SubSeq(text, i + 1, Min(i + CHUNK_SIZE, Len(text)))))>>
         \o (IF typing_delay > 0 /\ i + CHUNK_SIZE < Len(text)
             THEN <<Sleep(typing_delay)>> ELSE <<>>)
         \o SendChunks(text, typing_delay, i + CHUNK_SIZE)

\* TextTyper._type_via_sendinput
_type_via_sendinput(text, typing_delay) ==
    [result |-> "True",
     events |-> <<Sleep(FocusDelay)>> \o SendChunks(text, typing_delay, 0)]

\* TextTyper._type_via_keystroke; fails: does pynput's Controller.type
\* raise
_type_via_keystroke(text, fails) ==
    [result |-> IF fails THEN "raise" ELSE "True",
     events |-> <<Sleep(FocusDelay), ControllerType(text)>>]

\* A type_text without "if not text"
type_text_NoEmptyCheck(method, typing_delay, text, fails) ==
    IF method = "keystroke" THEN _type_via_keystroke(text, fails)
    ELSE _type_via_sendinput(text, typing_delay)

\* TextTyper.type_text.  The result is "True" or "raise"; no path of the
\* code returns False.
type_text(method, typing_delay, text, fails) ==
    IF text = None \/ text = <<>> THEN [result |-> "True", events |-> <<>>]
    ELSE IF method = "keystroke" THEN _type_via_keystroke(text, fails)
    ELSE _type_via_sendinput(text, typing_delay)

\* A cutoff that ignores the "0 = unlimited" setting
exceeded_max_duration_NoLimitCheck == recording /\ since_start >= max_duration

\* A cutoff that never comes
exceeded_max_duration_Never == FALSE

\* AudioRecorder.exceeded_max_duration
exceeded_max_duration ==
    IF ~recording \/ max_duration <= 0 THEN FALSE
    ELSE since_start >= max_duration

\* FloatingIndicator.show_recording: nothing within the minimum interval
\* since the last state change; else the recording state, shown, and the
\* time of the change
show_recording ==
    IF since_state_change < MIN_STATE_CHANGE_INTERVAL
    THEN [indicator |-> indicator, since_state_change |-> since_state_change]
    ELSE [indicator |-> "recording", since_state_change |-> 0]

\* FloatingIndicator.show_processing: the same test, then the processing
\* state
show_processing ==
    IF since_state_change < MIN_STATE_CHANGE_INTERVAL
    THEN [indicator |-> indicator, since_state_change |-> since_state_change]
    ELSE [indicator |-> "processing", since_state_change |-> 0]

\* FloatingIndicator.hide: always hides, and records the time
hide == [indicator |-> "hidden", since_state_change |-> 0]

\* AudioRecorder.cleanup_pending: not self._cleanup_complete.is_set()
cleanup_pending == ~cleanup_complete

\* The controller's session state.  Between the two flag writes of
\* _do_stop_recording the stop is already committed.
SessionState ==
    IF is_recording THEN "Recording"
    ELSE IF is_processing \/ main_pc = "stop_w2" THEN "Processing"
    ELSE "Idle"

\* No press stands behind a pending flag, a start attempt or a denial.
\* start: the press that set _pending_start; cur: the press whose
\* _pending_start the running tick has drained; stop: the press whose
\* release set _pending_stop; denied: the last press whose start was
\* turned down for want of the microphone permission; rec: the press
\* whose start made the controller Recording, while it is Recording; cut:
\* the last press whose recording the max-duration cutoff stopped while
\* its key was still held, until the next press.
NoOrigin ==
    [start |-> 0, cur |-> 0, stop |-> 0, denied |-> 0, rec |-> 0, cut |-> 0]

\* The unit harness has made no call.  op: the method called; n: calls
\* made so far; loads: successful model constructions so far; pre: the
\* transcriber before the call; audio: the samples passed in, or returned
\* by stop(); o1, o2, inf: what the environment did; raised, attempts,
\* text, cause: the result; had_stream, buffered: the recorder before a
\* stop().
NoCall ==
    [op |-> "none", n |-> 0, loads |-> 0,
     pre |-> [model |-> FALSE, device |-> "cpu", compute_type |-> "int8"],
     audio |-> <<>>, o1 |-> TRUE, o2 |-> TRUE,
     inf |-> [outcome |-> "none", segments |-> <<>>],
     raised |-> "none", attempts |-> 0, text |-> <<>>, cause |-> "none",
     had_stream |-> FALSE, buffered |-> 0]

\* CONFIG_FILE does not exist.  state: "absent", "unreadable" (open
\* fails), "undecodable" (bytes that are no text in the locale's
\* encoding), "not_json", "not_object" (a JSON document that is no
\* object) or "object"; members: the members of the object.
NoFile == [state |-> "absent", members |-> <<>>]

\* HotkeyListener.__init__: no callback is set; calls: the calls the
\* callbacks have received, oldest first
NoCallbacks == [on_press |-> FALSE, on_release |-> FALSE, calls |-> <<>>]

\* ------------------------------------------------------------------ Init
Init ==
    /\ app_pc = "start"
    /\ lock_fd = "none"
    /\ indicator = "hidden"
    /\ since_state_change = MIN_STATE_CHANGE_INTERVAL
    /\ is_recording = FALSE /\ is_processing = FALSE
    /\ pending_start = FALSE /\ pending_stop = FALSE
    /\ since_last_stop = Cooldown
    /\ notice = "none"
    /\ typer_method \in {"sendinput", "keystroke"}
    /\ main_pc = "loop"
    /\ sigq = <<>>
    /\ hotkey_active = FALSE /\ hk_pc = "idle"
    /\ recording = FALSE /\ stream = 0 /\ cleanup_complete = TRUE
    /\ audio_data = <<>>
    /\ max_duration \in {0, MaxDuration}
    /\ since_start = 0
    /\ wait_elapsed = 0 /\ wait_ok = TRUE /\ sleep_elapsed = 0
    /\ streams = [s \in Ids |-> "unborn"]
    /\ opened = 0
    /\ cleanups = [s \in Ids |-> "none"]
    /\ transcriber \in {[model |-> FALSE, device |-> "cuda", compute_type |-> "float16"],
                        [model |-> FALSE, device |-> "cpu", compute_type |-> "int8"]}
    /\ workers = {}
    /\ presses = 0
    /\ press_ctx = [state |-> "none", in_window |-> FALSE,
                    after_finish |-> FALSE]
    /\ delivered = 0
    /\ typed = 0
    /\ lost = 0
    /\ since_prev_stop = Cooldown
    /\ since_finish = Cooldown
    /\ origin = NoOrigin
    /\ call = NoCall
    /\ config_file = NoFile
    /\ callbacks = [NoCallbacks EXCEPT !.on_press = TRUE, !.on_release = TRUE]

Running == app_pc = "running"

\* --------------------------------------------------------------- startup

\* acquire_lock: open the lock file and lock it; True on success, False
\* when open or msvcrt.locking raises (another instance holds the lock)
acquire_lock(ok) == IF ok THEN "locked" ELSE "none"

\* A release_lock that leaves the lock as it is
release_lock_Keeps(fd) == fd

\* release_lock: if _lock_fd: unlock, close, unlink (errors swallowed);
\* _lock_fd = None
release_lock(fd) == IF fd = "locked" THEN "released" ELSE fd

\* app.main: if not acquire_lock(): sys.exit(0), before the try block
MainAcquireLock ==
    /\ app_pc = "start"
    /\ \E ok \in BOOLEAN :
         /\ lock_fd' = acquire_lock(ok)
         /\ app_pc' = IF ok THEN "boot" ELSE "exited"
    /\ UNCHANGED <<uiVars, ctlVars, hkVars, recVars, trVars, wkVars, histVars>>
    /\ UNCHANGED <<ghostVars, unitVars>>

\* app.main: pre-load the model, then MickeyApp(transcriber=preloaded).run();
\* an exception of the pre-load is logged and raised again, and
\* finally: release_lock()
MainPreload ==
    /\ app_pc = "boot"
    /\ \E o1 \in BOOLEAN, o2 \in BOOLEAN :
         LET e == _ensure_model(transcriber, o1, o2)
         IN /\ transcriber' = e.tr
            /\ app_pc' = IF e.raised = "none" THEN "running" ELSE "failed"
            /\ lock_fd' = IF e.raised = "none" THEN lock_fd
                          ELSE release_lock(lock_fd)
    /\ UNCHANGED <<uiVars, ctlVars, hkVars, recVars, wkVars, histVars>>
    /\ UNCHANGED <<ghostVars, unitVars>>

\* MickeyApp(transcriber=None), built without app.main: the app builds its
\* own, unloaded Transcriber
MickeyAppOwnTranscriber ==
    /\ app_pc = "start"
    /\ app_pc' = "running"
    /\ UNCHANGED <<lock_fd, uiVars>>
    /\ UNCHANGED <<ctlVars, hkVars, recVars, trVars, wkVars, histVars>>
    /\ UNCHANGED <<ghostVars, unitVars>>

\* ------------------------------------------------- hotkey listener thread
\* pynput delivers the key events one after the other on its own thread.

NoPress == [state |-> "none", in_window |-> FALSE, after_finish |-> FALSE]

\* What is remembered, until the key is released, of a press that the
\* debounce test turned away
Debounced ==
    [state |-> "debounced", in_window |-> TRUE, after_finish |-> FALSE]

\* A listener that calls on_press for the key-repeat events of a held key
\* as well
HotkeyPress_OnRepeat ==
    /\ Running /\ hk_pc = "idle"
    /\ presses < MaxPresses
    /\ hotkey_active' = TRUE
    /\ presses' = IF hotkey_active THEN presses ELSE presses + 1
    /\ IF is_recording
       THEN hk_pc' = "idle" /\ press_ctx' = NoPress
       ELSE /\ hk_pc' = "p_proc"
            /\ press_ctx' = [state |-> SessionState,
                             in_window |-> since_prev_stop < Cooldown,
                             after_finish |-> since_finish < Cooldown]
    /\ origin' = IF hotkey_active THEN origin ELSE [origin EXCEPT !.cut = 0]
    /\ UNCHANGED <<appVars, uiVars, ctlVars, recVars, trVars, wkVars,
                   histVars, unitVars>>

\* HotkeyListener._on_press on the hotkey, then the first read of
\* _on_hotkey_press: self._is_recording
HotkeyPress ==
    /\ Running /\ hk_pc = "idle" /\ ~hotkey_active
    /\ presses < MaxPresses
    /\ hotkey_active' = TRUE
    /\ presses' = presses + 1
    /\ IF is_recording
       THEN hk_pc' = "idle" /\ press_ctx' = NoPress
       ELSE /\ hk_pc' = "p_proc"
            /\ press_ctx' = [state |-> SessionState,
                             in_window |-> since_prev_stop < Cooldown,
                             after_finish |-> since_finish < Cooldown]
    /\ UNCHANGED <<appVars, uiVars, ctlVars, recVars, trVars, wkVars, histVars>>
    /\ origin' = [origin EXCEPT !.cut = 0]
    /\ UNCHANGED unitVars

\* _on_hotkey_press: read self._is_processing
PressReadProcessing ==
    /\ Running /\ hk_pc = "p_proc"
    /\ IF is_processing
       THEN hk_pc' = "idle" /\ press_ctx' = NoPress
       ELSE hk_pc' = "p_time" /\ UNCHANGED press_ctx
    /\ UNCHANGED <<appVars, uiVars, ctlVars, hotkey_active, presses, recVars, trVars,
                   wkVars, histVars>>
    /\ UNCHANGED <<ghostVars, unitVars>>

\* A debounce test that lets every press through
InCooldown_Never == FALSE

\* The debounce test of _on_hotkey_press:
\* time.time() - self._last_stop_time < 0.15
InCooldown == since_last_stop < Cooldown

\* _on_hotkey_press: the debounce test
PressDebounce ==
    /\ Running /\ hk_pc = "p_time"
    /\ IF InCooldown
       THEN hk_pc' = "idle" /\ press_ctx' = Debounced
       ELSE hk_pc' = "p_set" /\ UNCHANGED press_ctx
    /\ UNCHANGED <<appVars, uiVars, ctlVars, hotkey_active, presses, recVars, trVars,
                   wkVars, histVars>>
    /\ UNCHANGED <<ghostVars, unitVars>>

\* _on_hotkey_press: self._pending_start = True
PressSetPending ==
    /\ Running /\ hk_pc = "p_set"
    /\ pending_start' = TRUE
    /\ hk_pc' = "idle"
    /\ press_ctx' = NoPress
    /\ UNCHANGED <<appVars, uiVars, is_recording, is_processing, pending_stop,
                   since_last_stop, notice, typer_method, main_pc, sigq,
                   hotkey_active, presses, recVars, trVars, wkVars, histVars>>
    /\ origin' = [origin EXCEPT !.start = presses]
    /\ UNCHANGED unitVars

\* HotkeyListener._on_release on the hotkey, then the first read of
\* _on_hotkey_release: self._is_recording
HotkeyRelease ==
    /\ Running /\ hk_pc = "idle" /\ hotkey_active
    /\ hotkey_active' = FALSE
    /\ hk_pc' = IF is_recording THEN "r_set" ELSE "r_ps"
    /\ press_ctx' = NoPress
    /\ UNCHANGED <<appVars, uiVars, ctlVars, presses, recVars, trVars, wkVars,
                   histVars>>
    /\ UNCHANGED <<ghostVars, unitVars>>

\* _on_hotkey_release: read self._pending_start
ReleaseReadPending ==
    /\ Running /\ hk_pc = "r_ps"
    /\ hk_pc' = IF pending_start THEN "r_set" ELSE "idle"
    /\ UNCHANGED <<appVars, uiVars, ctlVars, hotkey_active, presses, press_ctx,
                   recVars, trVars, wkVars, histVars>>
    /\ UNCHANGED <<ghostVars, unitVars>>

\* A release that takes back the start its press asked for
ReleaseSetPending_ClearsStart ==
    /\ Running /\ hk_pc = "r_set"
    /\ pending_stop' = TRUE
    /\ pending_start' = FALSE
    /\ hk_pc' = "idle"
    /\ origin' = [origin EXCEPT !.stop = presses]
    /\ UNCHANGED <<appVars, uiVars, is_recording, is_processing, since_last_stop,
                   notice, typer_method, main_pc, sigq, hotkey_active,
                   presses, press_ctx, recVars, trVars, wkVars, histVars,
                   unitVars>>

\* _on_hotkey_release: self._pending_stop = True
ReleaseSetPending ==
    /\ Running /\ hk_pc = "r_set"
    /\ pending_stop' = TRUE
    /\ hk_pc' = "idle"
    /\ UNCHANGED <<appVars, uiVars, is_recording, is_processing, pending_start,
                   since_last_stop, notice, typer_method, main_pc, sigq,
                   hotkey_active, presses, press_ctx, recVars, trVars,
                   wkVars, histVars>>
    /\ origin' = [origin EXCEPT !.stop = presses]
    /\ UNCHANGED unitVars

\* ------------------------------------------------------------ main thread
\* Everything below runs on the Qt main thread; a handler runs to its end
\* before the event loop takes the next event.  The hotkey thread only ever
\* writes True to a pending flag, so the read of a flag that finds it set and
\* the write that clears it are one step, and so is a write of
\* _pending_stop with the step before it (no other thread reads that flag).

\* QTimer timeout -> _check_pending_actions:
\* if self._pending_start: self._pending_start = False
TimerTick ==
    /\ Running /\ main_pc = "loop"
    /\ notice' = "none"
    /\ pending_start' = FALSE
    /\ main_pc' = IF pending_start THEN "start_guard" ELSE "tick_stop"
    /\ UNCHANGED <<appVars, uiVars, is_recording, is_processing, pending_stop,
                   since_last_stop, typer_method, sigq, hkVars, recVars,
                   trVars, wkVars, histVars>>
    /\ origin' = IF pending_start
                 THEN [origin EXCEPT !.cur = origin.start, !.start = 0]
                 ELSE origin
    /\ UNCHANGED unitVars

\* The state guard of _do_start_recording
StartGuard == ~(is_recording \/ is_processing)

\* _do_start_recording up to the call of recorder.start(): the state guard,
\* check_microphone_permission() (granted), and on success
\* self._is_recording = True; self._last_stop_time = 0
DoStartRecording ==
    /\ Running /\ main_pc = "start_guard"
    /\ \E granted \in BOOLEAN :
         IF ~StartGuard
         THEN /\ main_pc' = "tick_stop"
              /\ origin' = [origin EXCEPT !.cur = 0]
              /\ UNCHANGED <<is_recording, since_last_stop, notice, uiVars>>
         ELSE IF ~granted
         THEN /\ notice' = "permission"
              /\ origin' = [origin EXCEPT !.denied = origin.cur, !.cur = 0]
              /\ main_pc' = "tick_stop"
              /\ UNCHANGED <<is_recording, since_last_stop, uiVars>>
         ELSE /\ is_recording' = TRUE
              /\ origin' = [origin EXCEPT !.cur = 0, !.rec = origin.cur]
              /\ since_last_stop' = Cooldown
              /\ main_pc' = "rs_wait"
              /\ indicator' = show_recording.indicator
              /\ since_state_change' = show_recording.since_state_change
              /\ UNCHANGED notice
    /\ UNCHANGED <<appVars, is_processing, pending_start, pending_stop,
                   typer_method, sigq, hkVars, recVars, trVars, wkVars,
                   histVars>>
    /\ UNCHANGED unitVars

\* A wait that returns at once
WaitReturns_AtOnce == TRUE

\* AudioRecorder.start: self._cleanup_complete.wait(timeout=0.5) returns,
\* because the event is set or because the timeout has expired
WaitReturns == cleanup_complete \/ wait_elapsed >= CleanupTimeout

\* AudioRecorder.start: the bounded wait for the pending teardown
RecorderStartWait ==
    /\ Running /\ main_pc = "rs_wait"
    /\ WaitReturns
    /\ wait_ok' = cleanup_complete
    /\ wait_elapsed' = 0
    /\ main_pc' = "rs_sleep"
    /\ UNCHANGED <<appVars, uiVars, is_recording, is_processing, pending_start,
                   pending_stop, since_last_stop, notice, typer_method,
                   sigq, hkVars, recording, stream, cleanup_complete,
                   audio_data, max_duration, since_start, sleep_elapsed,
                   streams, opened, cleanups, trVars, wkVars, histVars>>
    /\ UNCHANGED <<ghostVars, unitVars>>

\* AudioRecorder.start: time.sleep(0.15) returns, then
\* self._audio_data = []; self._recording = True; self._start_time = now
RecorderStartReset ==
    /\ Running /\ main_pc = "rs_sleep"
    /\ sleep_elapsed >= SettleDelay
    /\ sleep_elapsed' = 0
    /\ audio_data' = <<>>
    /\ recording' = TRUE
    /\ since_start' = 0
    /\ main_pc' = "rs_open"
    /\ UNCHANGED <<appVars, uiVars, is_recording, is_processing, pending_start,
                   pending_stop, since_last_stop, notice, typer_method,
                   sigq, hkVars, stream, cleanup_complete, max_duration,
                   wait_elapsed, wait_ok, streams, opened, cleanups, trVars, wkVars,
                   histVars>>
    /\ UNCHANGED <<ghostVars, unitVars>>

\* The recorder fields a failed AudioRecorder.start leaves behind.  res is
\* "ctor_raises" (sd.InputStream(...) raised: self._stream keeps its old
\* value) or "start_raises" (self._stream.start() raised: the new handle h
\* stays in self._stream).  Nothing resets self._recording.
FailedStart(res, h) ==
    [stream |-> IF res = "start_raises" THEN h ELSE stream,
     recording |-> recording]

\* AudioRecorder.start: self._stream = sd.InputStream(...);
\* self._stream.start().  On an exception the except branch of
\* _do_start_recording runs: self._is_recording = False and the
\* capture-error notice.
RecorderStartOpen ==
    /\ Running /\ main_pc = "rs_open"
    /\ \E res \in {"ok", "ctor_raises", "start_raises"} :
         LET h == opened + 1
         IN IF res = "ok"
            THEN /\ opened' = h
                 /\ streams' = [streams EXCEPT ![h] = "active"]
                 /\ stream' = h
                 /\ UNCHANGED <<is_recording, notice, recording, uiVars>>
            ELSE /\ opened' = IF res = "start_raises" THEN h ELSE opened
                 /\ streams' = IF res = "start_raises"
                               THEN [streams EXCEPT ![h] = "constructed"]
                               ELSE streams
                 /\ stream' = FailedStart(res, h).stream
                 /\ recording' = FailedStart(res, h).recording
                 /\ is_recording' = FALSE
                 /\ notice' = "capture"
                 /\ indicator' = hide.indicator
                 /\ since_state_change' = hide.since_state_change
    /\ origin' = IF is_recording' THEN origin ELSE [origin EXCEPT !.rec = 0]
    /\ wait_ok' = TRUE
    /\ main_pc' = "tick_stop"
    /\ UNCHANGED <<appVars, is_processing, pending_start, pending_stop,
                   since_last_stop, typer_method, sigq, hkVars,
                   cleanup_complete, audio_data, max_duration, since_start,
                   wait_elapsed, sleep_elapsed, cleanups, trVars, wkVars,
                   histVars>>
    /\ UNCHANGED unitVars

\* A stop that runs whatever the session state is
StopGuard_Always == TRUE

\* The state guard of _do_stop_recording
StopGuard == is_recording

\* _check_pending_actions: if self._pending_stop: self._pending_stop = False
\* and _do_stop_recording up to self._is_recording = False; otherwise the
\* max-duration check: if self._is_recording and
\* self.recorder.exceeded_max_duration: self._pending_stop = True
TickPendingStop ==
    /\ Running /\ main_pc = "tick_stop"
    /\ IF pending_stop
       THEN /\ pending_stop' = FALSE
            /\ IF StopGuard
               THEN is_recording' = FALSE /\ main_pc' = "stop_w2"
               ELSE UNCHANGED is_recording /\ main_pc' = "loop"
            /\ UNCHANGED notice
       ELSE /\ IF is_recording /\ exceeded_max_duration
               THEN pending_stop' = TRUE /\ notice' = "max_duration"
               ELSE UNCHANGED <<pending_stop, notice>>
            /\ main_pc' = "loop"
            /\ UNCHANGED is_recording
    /\ UNCHANGED <<appVars, uiVars, is_processing, pending_start, since_last_stop,
                   typer_method, sigq, hkVars, recVars, trVars, wkVars,
                   histVars>>
    /\ origin' = IF pending_stop
                 THEN [origin EXCEPT
                         !.stop = 0,
                         !.rec = IF StopGuard THEN 0 ELSE @,
                         !.cut = IF /\ StopGuard /\ exceeded_max_duration
                                    /\ hotkey_active /\ origin.rec = presses
                                 THEN presses ELSE @]
                 ELSE origin
    /\ UNCHANGED unitVars

\* A stop that starts a teardown also when there is no stream
RecorderStop_AlwaysSpawns ==
    [recording |-> FALSE,
     stream |-> 0,
     cleanup_complete |-> FALSE,
     cleanups |-> IF stream # 0 THEN [cleanups EXCEPT ![stream] = "run"]
                  ELSE cleanups,
     audio_data |-> <<>>,
     since_start |-> 0,
     data |-> audio_data]

\* A stop that hands the stream to a teardown without clearing the event
RecorderStop_KeepsEvent ==
    [recording |-> FALSE,
     stream |-> 0,
     cleanup_complete |-> cleanup_complete,
     cleanups |-> IF stream # 0 THEN [cleanups EXCEPT ![stream] = "run"]
                  ELSE cleanups,
     audio_data |-> <<>>,
     since_start |-> 0,
     data |-> audio_data]

\* AudioRecorder.stop: the recorder fields after the call, and the
\* returned data
RecorderStop ==
    [recording |-> FALSE,
     stream |-> 0,
     cleanup_complete |-> IF stream # 0 THEN FALSE ELSE cleanup_complete,
     cleanups |-> IF stream # 0 THEN [cleanups EXCEPT ![stream] = "run"]
                  ELSE cleanups,
     audio_data |-> <<>>,
     since_start |-> 0,
     data |-> audio_data]

\* _do_stop_recording from self._is_processing = True on:
\* self._last_stop_time = time.time(); audio = self.recorder.stop();
\* threading.Thread(target=transcribe_worker).start()
DoStopRecording ==
    /\ Running /\ main_pc = "stop_w2"
    /\ is_processing' = TRUE
    /\ indicator' = show_processing.indicator
    /\ since_state_change' = show_processing.since_state_change
    /\ since_last_stop' = 0
    /\ since_prev_stop' = 0
    /\ UNCHANGED since_finish
    /\ recording' = RecorderStop.recording
    /\ stream' = RecorderStop.stream
    /\ cleanup_complete' = RecorderStop.cleanup_complete
    /\ cleanups' = RecorderStop.cleanups
    /\ audio_data' = RecorderStop.audio_data
    /\ since_start' = RecorderStop.since_start
    /\ workers' = workers \cup {[pc |-> "run", audio |-> RecorderStop.data,
                                 kind |-> "none", text |-> <<>>]}
    /\ delivered' = 0
    /\ typed' = 0
    /\ main_pc' = "loop"
    /\ UNCHANGED <<appVars, is_recording, pending_start, pending_stop,
                   notice, typer_method, sigq, hkVars, max_duration,
                   wait_elapsed, wait_ok, sleep_elapsed, streams, opened, trVars,
                   lost>>
    /\ UNCHANGED <<ghostVars, unitVars>>

\* A delivery that types whatever the text is
ShouldType_Always(text) == TRUE

\* _on_transcription_finished: if text
ShouldType(text) == text # <<>>

\* Delivery of a queued finished(text) emission: _on_transcription_finished
\* up to the call of _finish_processing.  An exception of type_text leaves
\* the slot; PyQt6 aborts the process on an unhandled slot exception.
OnTranscriptionFinished ==
    /\ Running /\ main_pc = "loop"
    /\ sigq # <<>> /\ Head(sigq).kind = "finished"
    /\ sigq' = Tail(sigq)
    /\ delivered' = delivered + 1
    /\ IF ShouldType(Head(sigq).text)
       THEN \E fails \in BOOLEAN :
              LET success == type_text(typer_method, TypingDelay,
                                       Head(sigq).text, fails).result
              IN /\ typed' = typed + 1
                 /\ IF success = "raise"
                    THEN /\ app_pc' = "aborted"
                         /\ notice' = "none"
                         /\ UNCHANGED main_pc
                    ELSE /\ main_pc' = "finish"
                         /\ notice' = IF success = "False" THEN "typing"
                                      ELSE "none"
                         /\ UNCHANGED app_pc
       ELSE /\ main_pc' = "finish"
            /\ notice' = "none"
            /\ UNCHANGED <<typed, app_pc>>
    /\ UNCHANGED <<lock_fd, uiVars, is_recording, is_processing, pending_start,
                   pending_stop, since_last_stop, typer_method, hkVars,
                   recVars, trVars, wkVars, lost, since_prev_stop,
                   since_finish>>
    /\ UNCHANGED <<ghostVars, unitVars>>

\* Delivery of a queued error(msg) emission: _on_transcription_error up to
\* the call of _finish_processing
OnTranscriptionError ==
    /\ Running /\ main_pc = "loop"
    /\ sigq # <<>> /\ Head(sigq).kind = "error"
    /\ sigq' = Tail(sigq)
    /\ delivered' = delivered + 1
    /\ notice' = "transcription"
    /\ main_pc' = "finish"
    /\ UNCHANGED <<appVars, uiVars, is_recording, is_processing, pending_start,
                   pending_stop, since_last_stop, typer_method, hkVars,
                   recVars, trVars, wkVars, typed, lost, since_prev_stop,
                   since_finish>>
    /\ UNCHANGED <<ghostVars, unitVars>>

\* A _finish_processing that records the stop timestamp
FinishProcessing_Stamps ==
    /\ Running /\ main_pc = "finish"
    /\ is_processing' = FALSE
    /\ indicator' = hide.indicator
    /\ since_state_change' = hide.since_state_change
    /\ main_pc' = "loop"
    /\ since_finish' = 0
    /\ since_last_stop' = 0
    /\ UNCHANGED <<appVars, is_recording, pending_start, pending_stop,
                   notice, typer_method, sigq, hkVars, recVars, trVars,
                   wkVars, delivered, typed, lost, since_prev_stop,
                   ghostVars, unitVars>>

\* _finish_processing: self._is_processing = False
FinishProcessing ==
    /\ Running /\ main_pc = "finish"
    /\ is_processing' = FALSE
    /\ indicator' = hide.indicator
    /\ since_state_change' = hide.since_state_change
    /\ main_pc' = "loop"
    /\ since_finish' = 0
    /\ UNCHANGED <<appVars, is_recording, pending_start, pending_stop,
                   since_last_stop, notice, typer_method, sigq, hkVars,
                   recVars, trVars, wkVars, delivered, typed, lost,
                   since_prev_stop>>
    /\ UNCHANGED <<ghostVars, unitVars>>

\* ------------------------------------------------------- worker threads

\* What transcribe_worker does with the outcome r of transcribe: emit
\* finished(text), emit error(msg) for a TranscriptionError, and nothing
\* for any other exception, which ends the thread
WorkerOutcome(r) ==
    IF r.raised = "none" THEN [kind |-> "finished", text |-> r.text]
    ELSE IF r.raised = "TranscriptionError"
         THEN [kind |-> "error", text |-> <<>>]
         ELSE [kind |-> "none", text |-> <<>>]

\* transcribe_worker up to the emit: self.transcriber.transcribe(audio)
\* when len(audio) > 0, else text = "" (which transcribe returns for
\* such audio as well)
WorkerRun(w) ==
    /\ Running /\ w.pc = "run"
    /\ \E o1 \in BOOLEAN, o2 \in BOOLEAN, inf \in Inferences :
         LET r == transcribe(transcriber, w.audio, o1, o2, inf)
             out == WorkerOutcome(r)
         IN /\ transcriber' = r.tr
            /\ IF out.kind = "none"
               THEN /\ workers' = workers \ {w}
                    /\ lost' = lost + 1
               ELSE /\ workers' = (workers \ {w}) \cup
                          {[pc |-> "emit", audio |-> <<>>,
                            kind |-> out.kind, text |-> out.text]}
                    /\ UNCHANGED lost
    /\ UNCHANGED <<appVars, uiVars, ctlVars, hkVars, recVars, delivered, typed,
                   since_prev_stop, since_finish>>
    /\ UNCHANGED <<ghostVars, unitVars>>

\* transcribe_worker: self._signals.finished.emit(text) or
\* self._signals.error.emit(str(e)); the connection to the slot on the
\* main thread is queued; the thread ends
WorkerEmit(w) ==
    /\ Running /\ w.pc = "emit"
    /\ sigq' = Append(sigq, [kind |-> w.kind, text |-> w.text])
    /\ workers' = workers \ {w}
    /\ UNCHANGED <<appVars, uiVars, is_recording, is_processing, pending_start,
                   pending_stop, since_last_stop, notice, typer_method,
                   main_pc, hkVars, recVars, trVars, histVars>>
    /\ UNCHANGED <<ghostVars, unitVars>>

\* ------------------------------------------------------ teardown threads

\* cleanup: old_stream.abort(); old_stream.close(); an exception of either
\* is swallowed and leaves the handle as it is
CleanupAbortClose(s) ==
    /\ Running /\ cleanups[s] = "run"
    /\ \E raises \in BOOLEAN :
         streams' = IF raises THEN streams ELSE [streams EXCEPT ![s] = "closed"]
    /\ cleanups' = [cleanups EXCEPT ![s] = "finally"]
    /\ UNCHANGED <<appVars, uiVars, ctlVars, hkVars, recording, stream,
                   cleanup_complete, audio_data, max_duration, since_start,
                   wait_elapsed, wait_ok, sleep_elapsed, opened, trVars, wkVars,
                   histVars>>
    /\ UNCHANGED <<ghostVars, unitVars>>

\* cleanup: finally: self._cleanup_complete.set(); the thread ends
CleanupSet(s) ==
    /\ Running /\ cleanups[s] = "finally"
    /\ cleanup_complete' = TRUE
    /\ cleanups' = [cleanups EXCEPT ![s] = "done"]
    /\ UNCHANGED <<appVars, uiVars, ctlVars, hkVars, recording, stream, audio_data,
                   max_duration, since_start, wait_elapsed, wait_ok, sleep_elapsed,
                   streams, opened, trVars, wkVars, histVars>>
    /\ UNCHANGED <<ghostVars, unitVars>>

\* ----------------------------------------------------------- audio thread

\* _audio_callback of a started stream: if self._recording:
\* self._audio_data.append(indata.copy())
AudioCallback(s) ==
    /\ Running /\ streams[s] = "active"
    /\ recording
    /\ Len(audio_data) < MaxBlocks
    /\ audio_data' = Append(audio_data, s)
    /\ UNCHANGED <<appVars, uiVars, ctlVars, hkVars, recording, stream,
                   cleanup_complete, max_duration, since_start, wait_elapsed, wait_ok,
                   sleep_elapsed, streams, opened, cleanups, trVars, wkVars,
                   histVars>>
    /\ UNCHANGED <<ghostVars, unitVars>>

\* ------------------------------------------------------------------ time

\* One time unit passes: every elapsed time grows up to its saturation
TimePasses ==
    /\ Running
    /\ since_last_stop' = Min(since_last_stop + 1, Cooldown)
    /\ since_prev_stop' = Min(since_prev_stop + 1, Cooldown)
    /\ since_finish' = Min(since_finish + 1, Cooldown)
    /\ since_state_change' = Min(since_state_change + 1,
                                 MIN_STATE_CHANGE_INTERVAL)
    /\ wait_elapsed' = IF main_pc = "rs_wait"
                       THEN Min(wait_elapsed + 1, CleanupTimeout)
                       ELSE wait_elapsed
    /\ sleep_elapsed' = IF main_pc = "rs_sleep"
                        THEN Min(sleep_elapsed + 1, SettleDelay)
                        ELSE sleep_elapsed
    /\ since_start' = IF recording THEN Min(since_start + 1, max_duration)
                      ELSE since_start
    /\ UNCHANGED <<appVars, indicator, is_recording, is_processing, pending_start,
                   pending_stop, notice, typer_method, main_pc, sigq,
                   hkVars, recording, stream, cleanup_complete, audio_data,
                   max_duration, wait_ok, streams, opened, cleanups, trVars,
                   wkVars, delivered, typed, lost>>
    /\ UNCHANGED <<ghostVars, unitVars>>

\* ------------------------------------------------------------------ Next
Next ==
    \/ MainAcquireLock
    \/ MainPreload
    \/ MickeyAppOwnTranscriber
    \/ HotkeyPress
    \/ PressReadProcessing
    \/ PressDebounce
    \/ PressSetPending
    \/ HotkeyRelease
    \/ ReleaseReadPending
    \/ ReleaseSetPending
    \/ TimerTick
    \/ DoStartRecording
    \/ RecorderStartWait
    \/ RecorderStartReset
    \/ RecorderStartOpen
    \/ TickPendingStop
    \/ DoStopRecording
    \/ OnTranscriptionFinished
    \/ OnTranscriptionError
    \/ FinishProcessing
    \/ \E w \in workers : WorkerRun(w)
    \/ \E w \in workers : WorkerEmit(w)
    \/ \E s \in Ids : CleanupAbortClose(s)
    \/ \E s \in Ids : CleanupSet(s)
    \/ \E s \in Ids : AudioCallback(s)
    \/ TimePasses

Spec == Init /\ [][Next]_vars

\* ---------------------------------------------------------- unit harness
\* The Transcriber and the AudioRecorder driven directly, the way the
\* tests of the repository drive them: any sequence of _ensure_model,
\* transcribe, start and stop calls, with the audio callback, the
\* teardown threads and the clock running in between.

Unit == app_pc = "unit"

\* Transcriber(...) and AudioRecorder(...) just constructed
UnitInit ==
    /\ app_pc = "unit"
    /\ lock_fd = "none"
    /\ indicator = "hidden"
    /\ since_state_change = MIN_STATE_CHANGE_INTERVAL
    /\ is_recording = FALSE /\ is_processing = FALSE
    /\ pending_start = FALSE /\ pending_stop = FALSE
    /\ since_last_stop = Cooldown
    /\ notice = "none"
    /\ typer_method = "sendinput"
    /\ main_pc = "loop"
    /\ sigq = <<>>
    /\ hotkey_active = FALSE /\ hk_pc = "idle"
    /\ recording = FALSE /\ stream = 0 /\ cleanup_complete = TRUE
    /\ audio_data = <<>>
    /\ max_duration \in {0, MaxDuration}
    /\ since_start = 0
    /\ wait_elapsed = 0 /\ wait_ok = TRUE /\ sleep_elapsed = 0
    /\ streams = [s \in Ids |-> "unborn"]
    /\ opened = 0
    /\ cleanups = [s \in Ids |-> "none"]
    /\ transcriber \in {[model |-> FALSE, device |-> "cuda", compute_type |-> "float16"],
                        [model |-> FALSE, device |-> "cpu", compute_type |-> "int8"]}
    /\ workers = {}
    /\ presses = 0
    /\ press_ctx = NoPress
    /\ delivered = 0 /\ typed = 0 /\ lost = 0
    /\ since_prev_stop = Cooldown
    /\ since_finish = Cooldown
    /\ origin = NoOrigin
    /\ call = NoCall
    /\ config_file = NoFile
    /\ callbacks = NoCallbacks

\* What the harness never touches
unitFixed == <<appVars, uiVars, ctlVars, hkVars, wkVars, histVars, ghostVars,
               config_file, callbacks,
               max_duration, wait_elapsed, wait_ok, sleep_elapsed>>

\* The recorder fields a call on the transcriber leaves alone
unitRec == <<recording, stream, cleanup_complete, audio_data, since_start,
             streams, opened, cleanups>>

\* 1 when the call turned an unloaded transcriber into a loaded one
Loaded(before, after) == IF ~before.model /\ after.model THEN 1 ELSE 0

\* transcriber._ensure_model()
UnitEnsureModel ==
    /\ Unit /\ call.n < MaxCalls
    /\ \E o1 \in BOOLEAN, o2 \in BOOLEAN :
         LET e == _ensure_model(transcriber, o1, o2)
         IN /\ transcriber' = e.tr
            /\ call' = [NoCall EXCEPT
                  !.op = "_ensure_model", !.n = call.n + 1,
                  !.loads = call.loads + Loaded(transcriber, e.tr),
                  !.pre = transcriber, !.o1 = o1, !.o2 = o2,
                  !.raised = e.raised, !.attempts = e.attempts,
                  !.cause = IF e.raised = "none" THEN "none"
                            ELSE "construction"]
    /\ UNCHANGED <<unitFixed, unitRec>>

\* transcriber.transcribe(audio)
UnitTranscribe ==
    /\ Unit /\ call.n < MaxCalls
    /\ \E audio \in {<<>>, <<1>>}, o1 \in BOOLEAN, o2 \in BOOLEAN,
          inf \in Inferences :
         LET r == transcribe(transcriber, audio, o1, o2, inf)
         IN /\ transcriber' = r.tr
            /\ call' = [NoCall EXCEPT
                  !.op = "transcribe", !.n = call.n + 1,
                  !.loads = call.loads + Loaded(transcriber, r.tr),
                  !.pre = transcriber, !.audio = audio,
                  !.o1 = o1, !.o2 = o2, !.inf = inf,
                  !.raised = r.raised, !.attempts = r.attempts,
                  !.text = r.text, !.cause = r.cause]
    /\ UNCHANGED <<unitFixed, unitRec>>

\* recorder.start(), the whole call: the wait and the sleep return, the
\* buffer is reset, the stream is constructed and started or one of the
\* two raises
UnitStart ==
    /\ Unit /\ call.n < MaxCalls
    /\ \E res \in {"ok", "ctor_raises", "start_raises"} :
         LET h == opened + 1
         IN /\ res # "ctor_raises" => h \in Ids
            /\ audio_data' = <<>>
            /\ since_start' = 0
            /\ opened' = IF res = "ctor_raises" THEN opened ELSE h
            /\ streams' = IF res = "ctor_raises" THEN streams
                          ELSE [streams EXCEPT
                                  ![h] = IF res = "ok" THEN "active"
                                         ELSE "constructed"]
            /\ stream' = IF res = "ok" THEN h ELSE FailedStart(res, h).stream
            /\ recording' = TRUE
            /\ call' = [NoCall EXCEPT
                  !.op = "start", !.n = call.n + 1, !.loads = call.loads,
                  !.pre = transcriber,
                  !.raised = IF res = "ok" THEN "none" ELSE "Exception"]
    /\ UNCHANGED <<unitFixed, trVars, cleanup_complete, cleanups>>

\* recorder.stop()
UnitStop ==
    /\ Unit /\ call.n < MaxCalls
    /\ recording' = RecorderStop.recording
    /\ stream' = RecorderStop.stream
    /\ cleanup_complete' = RecorderStop.cleanup_complete
    /\ cleanups' = RecorderStop.cleanups
    /\ audio_data' = RecorderStop.audio_data
    /\ since_start' = RecorderStop.since_start
    /\ call' = [NoCall EXCEPT
          !.op = "stop", !.n = call.n + 1, !.loads = call.loads,
          !.pre = transcriber, !.audio = RecorderStop.data,
          !.had_stream = (stream # 0), !.buffered = Len(audio_data)]
    /\ UNCHANGED <<unitFixed, trVars, streams, opened>>

\* _audio_callback of a started stream
UnitAudioCallback(s) ==
    /\ Unit /\ streams[s] = "active" /\ recording
    /\ Len(audio_data) < MaxBlocks
    /\ audio_data' = Append(audio_data, s)
    /\ UNCHANGED <<unitFixed, trVars, unitVars, recording, stream,
                   cleanup_complete, since_start, streams, opened, cleanups>>

\* A teardown thread runs to its end: abort, close, set the event
UnitCleanup(s) ==
    /\ Unit /\ cleanups[s] = "run"
    /\ \E raises \in BOOLEAN :
         streams' = IF raises THEN streams ELSE [streams EXCEPT ![s] = "closed"]
    /\ cleanups' = [cleanups EXCEPT ![s] = "done"]
    /\ cleanup_complete' = TRUE
    /\ UNCHANGED <<unitFixed, trVars, unitVars, recording, stream,
                   audio_data, since_start, opened>>

\* The clock, without the cap the controller's model puts on it
UnitTimePasses ==
    /\ Unit /\ recording
    /\ since_start <= MaxDuration
    /\ since_start' = since_start + 1
    /\ UNCHANGED <<unitFixed, trVars, unitVars, recording, stream,
                   cleanup_complete, audio_data, streams, opened, cleanups>>

UnitNext ==
    \/ UnitEnsureModel
    \/ UnitTranscribe
    \/ UnitStart
    \/ UnitStop
    \/ \E s \in Ids : UnitAudioCallback(s)
    \/ \E s \in Ids : UnitCleanup(s)
    \/ UnitTimePasses

UnitSpec == UnitInit /\ [][UnitNext]_vars

\* ---------------------------------------------------------- text harness
\* transcribe on a loaded model that returns given segments, the way
\* tests/test_transcriber.py sets transcriber._model to a mock.

\* Every variable of the controller, the recorder and the listener
progVars == <<ctlVars, hkVars, recVars, trVars, wkVars, histVars, ghostVars>>

\* The components just constructed and never started, under harness pc
Harness(pc) ==
    /\ app_pc = pc
    /\ lock_fd = "none"
    /\ indicator = "hidden"
    /\ since_state_change = MIN_STATE_CHANGE_INTERVAL
    /\ is_recording = FALSE /\ is_processing = FALSE
    /\ pending_start = FALSE /\ pending_stop = FALSE
    /\ since_last_stop = Cooldown
    /\ notice = "none"
    /\ typer_method = "sendinput"
    /\ main_pc = "loop"
    /\ sigq = <<>>
    /\ hotkey_active = FALSE /\ hk_pc = "idle"
    /\ recording = FALSE /\ stream = 0 /\ cleanup_complete = TRUE
    /\ audio_data = <<>>
    /\ max_duration = 0
    /\ since_start = 0
    /\ wait_elapsed = 0 /\ wait_ok = TRUE /\ sleep_elapsed = 0
    /\ streams = [s \in Ids |-> "unborn"]
    /\ opened = 0
    /\ cleanups = [s \in Ids |-> "none"]
    /\ transcriber = [model |-> TRUE, device |-> "cpu", compute_type |-> "int8"]
    /\ workers = {}
    /\ presses = 0
    /\ press_ctx = NoPress
    /\ delivered = 0 /\ typed = 0 /\ lost = 0
    /\ since_prev_stop = Cooldown
    /\ since_finish = Cooldown
    /\ origin = NoOrigin

\* The texts of at most n characters over the set chars
Texts(chars, n) == UNION {[1..k -> chars] : k \in 0..n}

\* The segment texts of the mocked model: every text of spaces and "a",
\* an "a" between a newline and a tab, a no-break space alone
SegmentTexts == Texts({Space, 97}, MaxSegLen) \cup {<<10, 97, 9>>, <<160>>}

\* The segment sequences the mocked model returns
SegmentLists == Texts(SegmentTexts, MaxSegments)

\* The calls of transcribe to make: non-empty audio, a loaded model
\* that returns the segments
TranscribeCalls ==
    {[NoCall EXCEPT !.op = "call transcribe", !.audio = <<1>>,
                    !.inf = [outcome |-> "segments", segments |-> segments]] :
        segments \in SegmentLists}

\* The characters typed texts are made of: "a", the last character of
\* the basic plane, the first one beyond it, an emoji, the last character
TypedChars == {97, 65535, 65536, 128512, 1114111}

\* The texts given to the typer: every text of up to two characters, and
\* texts of every length up to MaxTextLen in which every third or every
\* twentieth character differs from the others
TypedTexts ==
    Texts(TypedChars, 2) \cup
    {[i \in 1..n |-> IF i % period = 0 THEN d ELSE c] :
        n \in 3..MaxTextLen, c \in TypedChars, d \in TypedChars,
        period \in {3, CHUNK_SIZE}}

\* No call of the typer has been made.  op: the method to call or
\* called; method, typing_delay: the fields of the TextTyper; text: the
\* argument; fails: what Controller.type does; result, events: what the
\* call returned and did.
NoTyperCall ==
    [op |-> "none", method |-> "sendinput", typing_delay |-> TypingDelay,
     text |-> <<>>, fails |-> FALSE, result |-> "none", events |-> <<>>]

\* The calls of type_text to make
TypeTextCalls ==
    {[NoTyperCall EXCEPT !.op = "call type_text", !.method = m,
                         !.typing_delay = d, !.text = t, !.fails = f] :
        m \in {"sendinput", "keystroke"}, d \in {0, TypingDelay},
        t \in TypedTexts \cup {None}, f \in BOOLEAN}

\* The calls of _type_via_sendinput to make
SendInputCalls ==
    {[NoTyperCall EXCEPT !.op = "call _type_via_sendinput",
                         !.typing_delay = d, !.text = t] :
        d \in {0, TypingDelay}, t \in TypedTexts}

\* One call is about to be made
TextInit ==
    /\ Harness("text")
    /\ \/ call \in TranscribeCalls
       \/ call \in TypeTextCalls
       \/ call \in SendInputCalls
    /\ config_file = NoFile
    /\ callbacks = NoCallbacks

\* transcriber.transcribe(audio)
TextTranscribe ==
    /\ app_pc = "text" /\ call.op = "call transcribe"
    /\ LET r == transcribe(transcriber, call.audio, TRUE, TRUE, call.inf)
       IN call' = [call EXCEPT
                  !.op = "transcribe", !.n = 1, !.pre = transcriber,
                  !.raised = r.raised, !.attempts = r.attempts,
                  !.text = r.text, !.cause = r.cause]
    /\ UNCHANGED <<appVars, uiVars, progVars, config_file, callbacks>>

\* typer.type_text(text)
TextTypeText ==
    /\ app_pc = "text" /\ call.op = "call type_text"
    /\ LET r == type_text(call.method, call.typing_delay, call.text,
                          call.fails)
       IN call' = [call EXCEPT !.op = "type_text", !.result = r.result,
                               !.events = r.events]
    /\ UNCHANGED <<appVars, uiVars, progVars, config_file, callbacks>>

\* typer._type_via_sendinput(text)
TextSendInput ==
    /\ app_pc = "text" /\ call.op = "call _type_via_sendinput"
    /\ LET r == _type_via_sendinput(call.text, call.typing_delay)
       IN call' = [call EXCEPT !.op = "_type_via_sendinput",
                               !.result = r.result, !.events = r.events]
    /\ UNCHANGED <<appVars, uiVars, progVars, config_file, callbacks>>

TextNext ==
    \/ TextTranscribe
    \/ TextTypeText
    \/ TextSendInput

TextSpec == TextInit /\ [][TextNext]_vars

\* ------------------------------------------------------ listener harness
\* A HotkeyListener whose _on_press and _on_release are called directly,
\* the way tests/test_hotkey.py calls them: any sequence of press and
\* release events of any keys.

\* Right Alt, AltGr, and two keys that are neither
Keys == {"alt_r", "alt_gr", "alt_l", "a"}

\* A test that takes every Alt key for the hotkey
_is_hotkey_AnyAlt(key) == key \in {"alt_r", "alt_gr", "alt_l"}

\* HotkeyListener._is_hotkey
_is_hotkey(key) == key \in {"alt_r", "alt_gr"}

\* A press test without "if not self._hotkey_active"
PressFires_WhileHeld(key) == _is_hotkey(key)

\* _on_press: the two nested conditions
PressFires(key) == _is_hotkey(key) /\ ~hotkey_active

\* _on_release: the two nested conditions
ReleaseFires(key) == _is_hotkey(key) /\ hotkey_active

\* No key event has been delivered
NoKey == [op |-> "none", key |-> "none", n |-> 0]

\* HotkeyListener() alone, or followed by set_callbacks(on_press,
\* on_release) with two callables
ListenerInit ==
    /\ Harness("listener")
    /\ call = NoKey
    /\ config_file = NoFile
    /\ callbacks \in {NoCallbacks,
                      [NoCallbacks EXCEPT !.on_press = TRUE,
                                          !.on_release = TRUE]}

listenerFixed == <<appVars, uiVars, ctlVars, hk_pc, presses, press_ctx, recVars,
                   trVars, wkVars, histVars, ghostVars, config_file>>

\* listener._on_press(key)
ListenerOnPress(key) ==
    /\ app_pc = "listener" /\ call.n < MaxKeyEvents
    /\ call' = [op |-> "_on_press", key |-> key, n |-> call.n + 1]
    /\ IF PressFires(key)
       THEN /\ hotkey_active' = TRUE
            /\ callbacks' =
                 IF callbacks.on_press
                 THEN [callbacks EXCEPT !.calls = Append(@, "press")]
                 ELSE callbacks
       ELSE UNCHANGED <<hotkey_active, callbacks>>
    /\ UNCHANGED listenerFixed

\* listener._on_release(key)
ListenerOnRelease(key) ==
    /\ app_pc = "listener" /\ call.n < MaxKeyEvents
    /\ call' = [op |-> "_on_release", key |-> key, n |-> call.n + 1]
    /\ IF ReleaseFires(key)
       THEN /\ hotkey_active' = FALSE
            /\ callbacks' =
                 IF callbacks.on_release
                 THEN [callbacks EXCEPT !.calls = Append(@, "release")]
                 ELSE callbacks
       ELSE UNCHANGED <<hotkey_active, callbacks>>
    /\ UNCHANGED listenerFixed

ListenerNext ==
    \/ \E key \in Keys : ListenerOnPress(key)
    \/ \E key \in Keys : ListenerOnRelease(key)

ListenerSpec == ListenerInit /\ [][ListenerNext]_vars

\* -------------------------------------------------------- config harness
\* Config.save and Config.load on a CONFIG_FILE that is absent, was
\* written by save, or was edited by hand, the way tests/test_config.py
\* patches CONFIG_FILE with a file of its own.

\* Python values: a str, an int, a bool (n is 1 or 0) or None
PyStr(s) == [type |-> "str", s |-> s, n |-> 0]
PyInt(n) == [type |-> "int", s |-> "", n |-> n]
PyBool(b) == [type |-> "bool", s |-> "", n |-> IF b THEN 1 ELSE 0]
PyNone == [type |-> "NoneType", s |-> "", n |-> 0]

\* JSON values: a string, a number, true, false or null
JsonString(s) == [t |-> "string", s |-> s, n |-> 0]
JsonNumber(n) == [t |-> "number", s |-> "", n |-> n]
JsonLiteral(t) == [t |-> t, s |-> "", n |-> 0]

\* An encoder that writes True and False as the numbers 1 and 0
dumps_BoolAsNumber(v) ==
    IF v.type = "str" THEN JsonString(v.s)
    ELSE IF v.type \in {"int", "bool"} THEN JsonNumber(v.n)
    ELSE JsonLiteral("null")

\* json.dump of one value
dumps(v) ==
    IF v.type = "str" THEN JsonString(v.s)
    ELSE IF v.type = "int" THEN JsonNumber(v.n)
    ELSE IF v.type = "bool"
         THEN JsonLiteral(IF v.n = 1 THEN "true" ELSE "false")
    ELSE JsonLiteral("null")

\* json.load of one value
loads(j) ==
    IF j.t = "string" THEN PyStr(j.s)
    ELSE IF j.t = "number" THEN PyInt(j.n)
    ELSE IF j.t = "true" THEN PyBool(TRUE)
    ELSE IF j.t = "false" THEN PyBool(FALSE)
    ELSE PyNone

\* The fields of the Config dataclass
Fields ==
    {"model_size", "language", "sample_rate", "channels", "compute_type",
     "device", "play_sounds", "input_device", "initial_prompt",
     "text_input_method", "max_recording_duration"}

\* Config(): the default of every field
Defaults ==
    [model_size |-> PyStr("small"), language |-> PyStr("en"),
     sample_rate |-> PyInt(16000), channels |-> PyInt(1),
     compute_type |-> PyStr("int8"), device |-> PyStr("auto"),
     play_sounds |-> PyBool(TRUE), input_device |-> PyNone,
     initial_prompt |-> PyStr("Transcription of voice dictation for emails, messages, code comments, and notes. Uses proper punctuation, capitalization, and natural sentence structure."),
     text_input_method |-> PyStr("sendinput"),
     max_recording_duration |-> PyInt(300)]

\* Another value of every field, in two variants
Other(v) ==
    [model_size |-> PyStr("large"), language |-> PyStr("de"),
     sample_rate |-> PyInt(44100), channels |-> PyInt(2),
     compute_type |-> PyStr("float16"), device |-> PyStr("cuda"),
     play_sounds |-> PyBool(FALSE),
     input_device |-> IF v = 1 THEN PyInt(1) ELSE PyStr("USB Mic"),
     initial_prompt |-> IF v = 1 THEN PyStr("") ELSE PyStr("Test prompt"),
     text_input_method |-> PyStr("keystroke"),
     max_recording_duration |-> PyInt(0)]

\* A key no field of Config is named by
UnknownKey == "theme"

\* The objects with the keys K, each known key with another value of its
\* field, the unknown key with a string
Edited(K) ==
    {[k \in K |-> IF k \in Fields THEN Other(v)[k] ELSE PyStr("dark")] :
        v \in 1..2}

\* The sets of at most MaxEdited of the keys, and all of them
KeySets(keys) == {K \in SUBSET keys : Cardinality(K) <= MaxEdited} \cup {keys}

\* The Configs saved: the defaults with some fields changed
Configs ==
    UNION {{[f \in Fields |-> IF f \in K THEN m[f] ELSE Defaults[f]] :
               m \in Edited(K)} : K \in KeySets(Fields)}

\* The documents found in CONFIG_FILE before any save: none, bytes that
\* are no text in the encoding open() uses, text that is no JSON, a JSON
\* list, and objects with some known keys and perhaps an unknown one
Documents ==
    {NoFile} \cup
    {[state |-> st, members |-> <<>>] :
        st \in {"undecodable", "not_json", "not_object"}} \cup
    UNION {{[state |-> "object", members |-> [k \in K |-> dumps(m[k])]] :
               m \in Edited(K)} : K \in KeySets(Fields \cup {UnknownKey})}

\* Config.save: json.dump(self.__dict__, f)
Config_save(config) ==
    [state |-> "object", members |-> [f \in Fields |-> dumps(config[f])]]

\* Config.load.  raised: "none" or the exception that leaves load
Config_load(file) ==
    IF file.state = "absent" THEN [config |-> Defaults, raised |-> "none"]
    ELSE IF file.state = "undecodable"
    THEN [config |-> Defaults, raised |-> "UnicodeDecodeError"]
    ELSE IF file.state \in {"not_json", "not_object"}
    THEN [config |-> Defaults, raised |-> "none"]
    ELSE IF DOMAIN file.members \subseteq Fields
    THEN [config |-> [f \in Fields |->
                        IF f \in DOMAIN file.members
                        THEN loads(file.members[f]) ELSE Defaults[f]],
          raised |-> "none"]
    ELSE [config |-> Defaults, raised |-> "none"]

\* Neither save nor load has been called.  config: the Config saved or
\* loaded; written: the Config whose save wrote the file as it is now;
\* fresh: such a save there was.
NoConfigCall ==
    [op |-> "none", config |-> Defaults, raised |-> "none",
     written |-> Defaults, fresh |-> FALSE]

ConfigInit ==
    /\ Harness("config")
    /\ call = NoConfigCall
    /\ config_file \in Documents
    /\ callbacks = NoCallbacks

\* config.save()
ConfigSave ==
    /\ app_pc = "config"
    /\ \E config \in Configs :
         /\ config_file' = Config_save(config)
         /\ call' = [op |-> "save", config |-> config, raised |-> "none",
                     written |-> config, fresh |-> TRUE]
    /\ UNCHANGED <<appVars, uiVars, progVars, callbacks>>

\* Config.load()
ConfigLoad ==
    /\ app_pc = "config"
    /\ LET r == Config_load(config_file)
       IN call' = [call EXCEPT !.op = "load", !.config = r.config,
                               !.raised = r.raised]
    /\ UNCHANGED <<appVars, uiVars, progVars, config_file, callbacks>>

ConfigNext ==
    \/ ConfigSave
    \/ ConfigLoad

ConfigSpec == ConfigInit /\ [][ConfigNext]_vars

\* ================================================================ Claims

\* C1: the session state moves along Idle -> Recording -> Processing -> Idle
\* only: Recording is entered only from Idle, by the poll tick that drained
\* pending_start; Processing is entered only from Recording, by the poll
\* tick running _do_stop_recording on a drained pending_stop; Idle is
\* entered from Processing only by _finish_processing after a finished or
\* error result was delivered.
C1_StateTransitions ==
    [][ /\ (SessionState # "Recording" /\ SessionState' = "Recording")
            => (SessionState = "Idle" /\ main_pc = "start_guard")
        /\ (SessionState # "Processing" /\ SessionState' = "Processing")
            => (SessionState = "Recording" /\ main_pc = "tick_stop"
                /\ pending_stop)
        /\ (SessionState = "Processing" /\ SessionState' # "Processing")
            => (SessionState' = "Idle" /\ main_pc = "finish"
                /\ delivered = 1) ]_vars

\* A whole cycle has run: the controller is back in Idle after the result
\* of a stop was delivered.
C1_Witness ==
    /\ SessionState = "Idle" /\ main_pc = "loop"
    /\ delivered = 1 /\ opened >= 1

\* C2: _is_recording and _is_processing are never both true, at most one
\* worker is in flight, and a press that arrives while the controller is
\* Recording or Processing gets no further than its state checks: it never
\* reaches the assignment of _pending_start.
C2_OneCycleInFlight ==
    /\ ~(is_recording /\ is_processing)
    /\ Cardinality(workers) <= 1
    /\ Cardinality({s \in Ids : streams[s] = "active" /\ stream = s}) <= 1
    /\ hk_pc = "p_set" => press_ctx.state = "Idle"

\* C3: Processing always has its way back to Idle ahead of it: a worker is
\* still computing, or its result is queued for the main thread, or the
\* main thread is in the handler that ends with _finish_processing.
C3_ProcessingEnds ==
    is_processing =>
        \/ workers # {}
        \/ sigq # <<>>
        \/ main_pc = "finish"

\* C4: every stop gets exactly one result: while the controller is in
\* Processing the result of the stop is in exactly one place, the worker
\* that computes it, the queue to the main thread, or the handler that
\* took it, and no worker ends without emitting.
C4_ExactlyOneResult ==
    /\ lost = 0
    /\ is_processing => Cardinality(workers) + Len(sigq) + delivered = 1

\* C5 as stated: a press that arrives less than the cooldown after the
\* previous stop never reaches the assignment of _pending_start.
C5_CooldownIgnoresPress ==
    hk_pc = "p_set" => ~press_ctx.in_window

\* C5 amended: a press whose callback comes to the debounce test less
\* than the cooldown after the previous stop, no start having reset the
\* stop timestamp since, returns without touching _pending_start; the
\* stop timestamp is the time of the previous stop until a start resets it.
C5_DebounceAtClockRead ==
    /\ [](since_last_stop # since_prev_stop => since_last_stop = Cooldown)
    /\ [][ (hk_pc = "p_time" /\ hk_pc' # "p_time"
            /\ since_prev_stop < Cooldown
            /\ since_last_stop = since_prev_stop)
           => (hk_pc' = "idle" /\ pending_start' = pending_start) ]_vars

\* A second press was turned away by the debounce test with the
\* controller back in Idle, inside the window of the stop before it.
C5_Witness ==
    /\ press_ctx.state = "debounced" /\ presses = 2
    /\ ~is_recording /\ ~is_processing /\ ~pending_start
    /\ since_prev_stop < Cooldown

\* C6: a failure of type_text never leaves the controller short of
\* _finish_processing: the application is not brought down with
\* _is_processing still set.
C6_InjectionFailureReturnsToIdle ==
    app_pc = "aborted" => ~is_processing

\* C7: type_text is invoked by a delivery exactly when the delivered
\* result is finished with a non-empty text, at most once per cycle, and
\* only while _is_processing is set, before _finish_processing clears it.
C7_TypesOncePerCycle ==
    /\ [](typed <= 1)
    /\ [][ /\ (delivered' = delivered + 1)
               => /\ typed' \in {typed, typed + 1}
                  /\ (typed' = typed + 1)
                       <=> (Head(sigq).kind = "finished"
                            /\ Head(sigq).text # <<>>)
           /\ (delivered' # delivered + 1) => typed' \in {typed, 0}
           /\ (typed' = typed + 1)
               => (is_processing /\ ~is_recording
                   /\ (app_pc' = "running" => is_processing')) ]_vars

\* A recognized text has been typed and the controller is still in
\* Processing, about to run _finish_processing.
C7_Witness ==
    typed = 1 /\ delivered = 1 /\ main_pc = "finish" /\ is_processing

\* The cleanups spawned so far that have not set the event yet
Unfinished == {s \in Ids : cleanups[s] \in {"run", "finally"}}

\* The stream of the latest stop (0 before the first stop)
LatestStopped ==
    IF \E s \in Ids : cleanups[s] # "none"
    THEN CHOOSE s \in Ids : /\ cleanups[s] # "none"
                            /\ \A t \in Ids : cleanups[t] # "none" => t <= s
    ELSE 0

\* C8 as stated: a stream is opened only when no teardown is unfinished,
\* and at most one stream that no finished teardown has dealt with is
\* active at a time.
C8_NeverOpensDuringTeardown ==
    /\ [](Cardinality({s \in Ids : /\ streams[s] = "active"
                                   /\ cleanups[s] # "done"}) <= 1)
    /\ [][opened' = opened + 1 => Unfinished = {}]_vars

\* C8 amended: a stream is opened only after the bounded wait has expired
\* or after the cleanup event was set, and the event is set only when no
\* stop with a stream has happened yet, or the teardown of the latest stop
\* has finished, or an older teardown has finished; the recorder refers to
\* at most one handle.
C8_OpensAfterTeardownOrTimeout ==
    /\ [](cleanup_complete =>
            \/ LatestStopped = 0
            \/ cleanups[LatestStopped] = "done"
            \/ \E s \in Ids : s < LatestStopped /\ cleanups[s] = "done")
    /\ [][ /\ (main_pc = "rs_wait" /\ main_pc' = "rs_sleep")
               => /\ cleanup_complete \/ wait_elapsed >= CleanupTimeout
                  /\ wait_ok' = cleanup_complete
           /\ (opened' = opened + 1)
               => (main_pc = "rs_open" /\ (wait_ok => cleanup_complete))
         ]_vars

\* A second stream is active although the teardown of the first one has
\* not finished: the wait ran into its timeout.
C8_Witness ==
    /\ opened = 2 /\ streams[2] = "active" /\ stream = 2
    /\ cleanups[1] = "run"

\* C9: every handle that was constructed is the one the recorder holds or
\* has been handed to a teardown.
C9_NoHandleDropped ==
    \A s \in Ids :
        streams[s] # "unborn" => (stream = s \/ cleanups[s] # "none")

\* C10: after a start() that failed the recorder is clean: is_recording is
\* false and no handle is retained.
C10_CleanAfterFailedStart ==
    notice = "capture" => (~recording /\ stream = 0)

\* C11 as stated: a start attempt that fails never had the controller in
\* Recording: at the step at which recorder.start() raises,
\* _is_recording is not set for any other thread to see.
C11_NeverRecordingForFailedStart ==
    [][(notice' = "capture" /\ notice # "capture") => ~is_recording]_vars

\* C11 amended: the step at which recorder.start() raises takes the
\* controller from Recording, where _do_start_recording had put it before
\* the call, back to Idle with the capture notice and dispatches no
\* worker; while the notice stands the controller stays Idle, and the
\* rest of the tick stops nothing, also when a release that saw
\* _is_recording during the attempt has set pending_stop.
C11_FailedStartRevertsToIdle ==
    /\ [](notice = "capture" => (SessionState = "Idle" /\ workers = {}))
    /\ [][ /\ (notice' = "capture" /\ notice # "capture")
               => /\ main_pc = "rs_open" /\ is_recording
                  /\ SessionState' = "Idle"
                  /\ workers' = workers /\ sigq' = sigq
           /\ (notice = "capture" /\ main_pc = "tick_stop")
               => main_pc' \in {"tick_stop", "loop"} ]_vars

\* A start attempt has failed after the key was released during it: the
\* pending_stop of that release was drained without a stop and the
\* controller is Idle with the capture notice.
C11_Witness ==
    /\ notice = "capture" /\ main_pc = "loop"
    /\ presses = 1 /\ ~hotkey_active /\ hk_pc = "idle"
    /\ ~pending_stop /\ ~is_recording /\ ~is_processing /\ workers = {}

\* C12: a start turned down for want of the microphone permission leaves
\* the controller in Idle with the permission notice and the recorder
\* untouched (no AudioRecorder.start()), and the pending_stop set by the
\* release of the press that was turned down never stops anything.
C12_DeniedStartStaysIdle ==
    /\ [](notice = "permission" => SessionState = "Idle")
    /\ [][ /\ (notice' = "permission" /\ notice # "permission")
               => /\ main_pc = "start_guard" /\ main_pc' = "tick_stop"
                  /\ SessionState = "Idle" /\ SessionState' = "Idle"
                  /\ UNCHANGED recVars
           /\ (main_pc = "tick_stop" /\ main_pc' = "stop_w2")
               => (origin.stop = 0 \/ origin.stop # origin.denied) ]_vars

\* The poll tick is between two handlers or in _check_pending_actions
\* outside recorder.start()
InTick == main_pc \in {"loop", "start_guard", "tick_stop"}

\* C13: while the controller is Recording with max_duration > 0 and the
\* time since start has reached max_duration, the max-duration check of a
\* poll tick sets pending_stop and shows the notice; from then on the flag
\* and the Recording state stand until the stop branch of the following
\* tick, which moves the controller to Processing; no release is needed.
C13_MaxDurationStops ==
    /\ [](notice = "max_duration"
            => (pending_stop /\ is_recording /\ main_pc = "loop"))
    /\ [][ /\ (/\ main_pc = "tick_stop" /\ main_pc' = "loop"
               /\ is_recording /\ ~pending_stop
               /\ recording /\ max_duration > 0
               /\ since_start >= max_duration)
               => (pending_stop' /\ notice' = "max_duration")
           /\ (pending_stop /\ is_recording /\ InTick)
               => \/ (pending_stop' /\ is_recording' /\ InTick')
                  \/ (main_pc = "tick_stop" /\ main_pc' = "stop_w2"
                      /\ ~is_recording') ]_vars

\* The recording of the first press has been stopped by the cutoff while
\* the key is still held: no release has happened.
C13_Witness ==
    /\ main_pc = "stop_w2" /\ max_duration > 0
    /\ presses = 1 /\ hotkey_active /\ hk_pc = "idle"
    /\ since_start >= max_duration

\* C14: exceeded_max_duration is true exactly when the recorder is
\* recording, max_duration is positive and the time since start is at
\* least max_duration; with max_duration = 0 it is false whatever the
\* time since start.
C14_ExceededIff ==
    /\ exceeded_max_duration
         <=> (recording /\ max_duration > 0 /\ since_start >= max_duration)
    /\ max_duration = 0 => ~exceeded_max_duration

\* The recorder has been recording for longer than its positive
\* max_duration and the property says so.
C14_Witness ==
    /\ Unit /\ recording /\ max_duration > 0
    /\ since_start > max_duration /\ exceeded_max_duration

\* C15: a stop() with no block buffered returns the empty array and
\* raises nothing; a stop() on a recorder without a stream spawns no
\* teardown and leaves the cleanup event as it was, so a recorder that
\* was never started has no cleanup pending.
C15_StopWithoutSamples ==
    /\ []((call.op = "stop" /\ call.buffered = 0)
            => (call.audio = <<>> /\ call.raised = "none"))
    /\ []((opened = 0 /\ Unit) => cleanup_complete)
    /\ [][(call'.op = "stop" /\ call'.n = call.n + 1 /\ stream = 0)
            => (cleanups' = cleanups
                /\ cleanup_complete' = cleanup_complete)]_vars

\* stop() was the first call on a recorder that was never started: it
\* returned no samples and no cleanup is pending.
C15_Witness ==
    /\ call.op = "stop" /\ call.n = 1 /\ ~call.had_stream
    /\ call.audio = <<>> /\ cleanup_complete /\ ~recording

\* C16: _ensure_model on an unloaded cuda transcriber whose first
\* construction fails and whose second succeeds makes two attempts and
\* ends loaded on cpu/int8; on an unloaded cpu transcriber a failed
\* construction is the only attempt.
C16_CudaFallsBackOnce ==
    /\ (/\ call.op = "_ensure_model" /\ ~call.pre.model
        /\ call.pre.device = "cuda" /\ ~call.o1 /\ call.o2)
        => /\ call.attempts = 2 /\ call.raised = "none"
           /\ transcriber = [model |-> TRUE, device |-> "cpu",
                             compute_type |-> "int8"]
    /\ (/\ call.op = "_ensure_model" /\ ~call.pre.model
        /\ call.pre.device = "cpu" /\ ~call.o1)
        => /\ call.attempts = 1 /\ call.raised # "none"
           /\ transcriber = call.pre

\* _ensure_model has fallen back from cuda to cpu and holds a model.
C16_Witness ==
    /\ call.op = "_ensure_model" /\ ~call.pre.model
    /\ call.pre.device = "cuda" /\ ~call.o1 /\ call.o2
    /\ transcriber.model /\ transcriber.device = "cpu"

\* C17: when the construction on cuda and the CPU fallback both fail,
\* _ensure_model, and transcribe through it, raises TranscriptionError
\* and the transcriber stays unloaded.
C17_DoubleFailureIsTyped ==
    (/\ call.op \in {"_ensure_model", "transcribe"}
     /\ call.op = "transcribe" => call.audio # <<>>
     /\ ~call.pre.model /\ call.pre.device = "cuda"
     /\ ~call.o1 /\ ~call.o2)
        => (call.raised = "TranscriptionError" /\ ~transcriber.model)

\* C18: a loaded transcriber is never constructed again: a call on it
\* makes no attempt and leaves it as it is, a loaded model is never
\* dropped, and no transcriber is constructed with success twice.
C18_LoadIsMemoized ==
    /\ []((call.op \in {"_ensure_model", "transcribe"} /\ call.pre.model)
            => (call.attempts = 0 /\ transcriber = call.pre))
    /\ [](call.loads <= 1)
    /\ [][transcriber.model => transcriber' = transcriber]_vars

\* A transcribe with audio was served by a model that an earlier call
\* had loaded.
C18_Witness ==
    /\ call.op = "transcribe" /\ call.audio # <<>> /\ call.pre.model
    /\ call.n >= 2 /\ call.loads = 1 /\ call.raised = "none"

\* C19: transcribe on a zero-length array returns "" without raising,
\* makes no construction attempt and leaves the transcriber as it was.
C19_EmptyAudio ==
    (call.op = "transcribe" /\ call.audio = <<>>)
        => /\ call.text = <<>> /\ call.raised = "none"
           /\ call.attempts = 0 /\ transcriber = call.pre

\* transcribe was called with no samples on a transcriber that is not
\* loaded, and it still is not.
C19_Witness ==
    /\ call.op = "transcribe" /\ call.audio = <<>>
    /\ ~call.pre.model /\ ~transcriber.model /\ call.text = <<>>

\* C20: with the model available, a failure of the model call or of the
\* iteration over the segments leaves transcribe as a TranscriptionError
\* raised from that failure, and nothing but a TranscriptionError comes
\* out of inference.
C20_InferenceFailureIsTyped ==
    /\ (/\ call.op = "transcribe" /\ call.audio # <<>>
        /\ call.cause # "construction"
        /\ call.inf.outcome \in {"raise_call", "raise_segments"})
        => (call.raised = "TranscriptionError"
            /\ call.cause = call.inf.outcome)
    /\ (call.op = "transcribe" /\ call.cause # "construction")
        => call.raised \in {"none", "TranscriptionError"}

\* The iteration over the segments has failed inside a transcribe on a
\* loaded model.
C20_Witness ==
    /\ call.op = "transcribe" /\ call.audio # <<>>
    /\ transcriber.model /\ call.inf.outcome = "raise_segments"
    /\ call.raised = "TranscriptionError"

\* s without the whitespace before its first and after its last
\* character that is not whitespace
C21_Trimmed(s) ==
    LET keep == {k \in 1..Len(s) : s[k] \notin Whitespace}
    IN IF keep = {} THEN <<>>
       ELSE SubSeq(s, CHOOSE k \in keep : \A m \in keep : k <= m,
                      CHOOSE k \in keep : \A m \in keep : k >= m)

RECURSIVE C21_Offset(_, _)
\* Where part k starts when the parts are laid out with one separator
\* between neighbours
C21_Offset(parts, k) ==
    IF k = 1 THEN 0
    ELSE C21_Offset(parts, k - 1) + Len(parts[k - 1]) + 1

\* The parts in order with exactly one space between neighbours
C21_Joined(parts) ==
    LET n == Len(parts)
        len == IF n = 0 THEN 0 ELSE C21_Offset(parts, n) + Len(parts[n])
    IN [p \in 1..len |->
          LET k == CHOOSE m \in 1..n :
                     /\ p > C21_Offset(parts, m)
                     /\ p <= C21_Offset(parts, m) + Len(parts[m]) + 1
          IN IF p <= C21_Offset(parts, k) + Len(parts[k])
             THEN parts[k][p - C21_Offset(parts, k)]
             ELSE Space]

\* C21: when the model returns segments, transcribe returns the segment
\* texts each trimmed, joined in order with single spaces, the result
\* trimmed; no segments give the empty string.
C21_JoinsTrimmedSegments ==
    (call.op = "transcribe" /\ call.inf.outcome = "segments"
     /\ call.audio # <<>> /\ call.raised = "none")
        => /\ call.text =
                C21_Trimmed(C21_Joined(
                    [k \in 1..Len(call.inf.segments) |->
                        C21_Trimmed(call.inf.segments[k])]))
           /\ call.inf.segments = <<>> => call.text = <<>>

\* Two segments with whitespace at their ends and one with a space
\* inside have come back as "a a a".
C21_Witness ==
    /\ call.op = "transcribe" /\ call.raised = "none"
    /\ call.inf.segments = << <<10, 97, 9>>, <<97, Space, 97>> >>
    /\ call.text = <<97, Space, 97, Space, 97>>

\* C22: the press callback is invoked only by a press of the hotkey that
\* takes the listener from inactive to active, the release callback only
\* by a release that takes it from active to inactive; the calls
\* alternate, press first; a press while held and a release while not
\* held invoke nothing.
C22_CallbacksOnEdges ==
    /\ [](\A i \in 1..Len(callbacks.calls) :
            callbacks.calls[i] = IF i % 2 = 1 THEN "press" ELSE "release")
    /\ [][ /\ callbacks.calls' # callbacks.calls
               => \/ /\ callbacks.calls' = Append(callbacks.calls, "press")
                     /\ call'.op = "_on_press"
                     /\ call'.key \in {"alt_r", "alt_gr"}
                     /\ ~hotkey_active /\ hotkey_active'
                  \/ /\ callbacks.calls' = Append(callbacks.calls, "release")
                     /\ call'.op = "_on_release"
                     /\ call'.key \in {"alt_r", "alt_gr"}
                     /\ hotkey_active /\ ~hotkey_active'
           /\ (call'.n = call.n + 1 /\ call'.op = "_on_press"
               /\ hotkey_active)
               => (callbacks' = callbacks /\ hotkey_active')
           /\ (call'.n = call.n + 1 /\ call'.op = "_on_release"
               /\ ~hotkey_active)
               => (callbacks' = callbacks /\ ~hotkey_active') ]_vars

\* Five key events have invoked press, release and press again, so two
\* of the events invoked nothing.
C22_Witness ==
    /\ call.n = 5 /\ callbacks.calls = <<"press", "release", "press">>
    /\ hotkey_active

\* C23: a press or a release of a key other than Right Alt / AltGr
\* leaves _hotkey_active as it is and invokes no callback, whether the
\* hotkey is held or not.
C23_OtherKeysIgnored ==
    [][ (call'.n = call.n + 1 /\ call'.key \notin {"alt_r", "alt_gr"})
            => UNCHANGED <<hotkey_active, callbacks>> ]_vars

\* Another key has been released while the hotkey is held, after its
\* press callback ran.
C23_Witness ==
    /\ call.op = "_on_release" /\ call.key = "alt_l"
    /\ hotkey_active /\ callbacks.calls = <<"press">>

\* The SendInput calls among the events, in order
Sends(events) == SelectSeq(events, LAMBDA e : e.kind = "SendInput")

\* The code units an array of inputs carries: the units of its key-down
\* inputs
UnitsOf(inputs) == [k \in 1..(Len(inputs) \div 2) |-> inputs[2 * k - 1].wScan]

RECURSIVE DecodesTo(_, _)
\* The code units are the UTF-16 encoding of the characters: one unit
\* per character of the basic plane, a high and a low surrogate for any
\* other
DecodesTo(units, chars) ==
    IF chars = <<>> THEN units = <<>>
    ELSE IF Head(chars) <= 65535
    THEN /\ units # <<>> /\ units[1] = Head(chars)
         /\ DecodesTo(Tail(units), Tail(chars))
    ELSE /\ Len(units) >= 2
         /\ units[1] \in 55296..56319 /\ units[2] \in 56320..57343
         /\ 65536 + (units[1] - 55296) * 1024 + (units[2] - 56320)
              = Head(chars)
         /\ DecodesTo(SubSeq(units, 3, Len(units)), Tail(chars))

\* C24: _type_via_sendinput on n characters sleeps the settle delay
\* once, first, then makes ceil(n / 20) SendInput calls, the b-th
\* carrying characters 20(b-1)+1 .. 20b of the text, with one sleep of
\* typing_delay between two consecutive calls when typing_delay > 0 and
\* no other sleep.
C24_BatchesAndDelays ==
    (call.op = "_type_via_sendinput")
        => LET ev == call.events
               n == Len(call.text)
               batches == (n + CHUNK_SIZE - 1) \div CHUNK_SIZE
               gap == IF call.typing_delay > 0 THEN 2 ELSE 1
           IN /\ Len(Sends(ev)) = batches
              /\ ev[1] = Sleep(FocusDelay)
              /\ Len(ev) = 1 + batches
                     + (IF gap = 2 /\ batches > 0 THEN batches - 1 ELSE 0)
              /\ \A b \in 1..batches :
                   /\ ev[2 + gap * (b - 1)].kind = "SendInput"
                   /\ DecodesTo(UnitsOf(ev[2 + gap * (b - 1)].inputs),
                                SubSeq(call.text, CHUNK_SIZE * (b - 1) + 1,
                                       Min(CHUNK_SIZE * b, n)))
                   /\ (gap = 2 /\ b < batches)
                       => ev[3 + gap * (b - 1)] = Sleep(call.typing_delay)
              /\ call.result = "True"

\* 41 characters have gone out in three batches with two sleeps of
\* typing_delay between them.
C24_Witness ==
    /\ call.op = "_type_via_sendinput" /\ Len(call.text) = 41
    /\ call.typing_delay > 0 /\ Len(call.events) = 6
    /\ call.events[6].kind = "SendInput"
    /\ Len(call.events[6].inputs) = 2

\* C25: in every batch each character up to U+FFFF is one code unit and
\* each character beyond it a high surrogate followed by a low surrogate
\* that decode to it; every code unit is one key-down input followed at
\* once by its key-up input, 2 x (code units) inputs in all.
C25_CodeUnitsAndKeyPairs ==
    (call.op = "_type_via_sendinput")
        => \A b \in 1..Len(Sends(call.events)) :
             LET inputs == Sends(call.events)[b].inputs
                 chunk == SubSeq(call.text, CHUNK_SIZE * (b - 1) + 1,
                                 Min(CHUNK_SIZE * b, Len(call.text)))
                 beyond == Cardinality({k \in 1..Len(chunk) :
                                           chunk[k] > 65535})
             IN /\ Len(inputs) = 2 * (Len(chunk) + beyond)
                /\ DecodesTo(UnitsOf(inputs), chunk)
                /\ \A k \in 1..(Len(inputs) \div 2) :
                     /\ ~inputs[2 * k - 1].keyup /\ inputs[2 * k].keyup
                     /\ inputs[2 * k].wScan = inputs[2 * k - 1].wScan
                     /\ inputs[2 * k].wScan \in 0..65535

\* An emoji at the end of a full chunk has gone out with it, as a
\* surrogate pair: 21 code units, 42 inputs.
C25_Witness ==
    /\ call.op = "_type_via_sendinput" /\ Len(call.text) >= 20
    /\ call.text[20] = 128512 /\ call.text[19] = 97
    /\ Len(call.events[2].inputs) = 42
    /\ call.events[2].inputs[39].wScan = 55357
    /\ call.events[2].inputs[41].wScan = 56832

\* C26: type_text on "" or on None returns True with no event at all,
\* neither an input nor a sleep, under both methods; on any other text
\* it runs the method that the method field names, and only that one.
C26_EmptyIsNoOpElseDispatch ==
    (call.op = "type_text")
        => IF call.text = <<>> \/ call.text = None
           THEN call.result = "True" /\ call.events = <<>>
           ELSE /\ call.events # <<>>
                /\ \A k \in 1..Len(call.events) :
                     call.events[k].kind \in
                        {"sleep", IF call.method = "keystroke"
                                  THEN "Controller.type" ELSE "SendInput"}
                /\ \E k \in 1..Len(call.events) :
                     call.events[k].kind # "sleep"
                /\ call.method = "keystroke"
                     => call.events = _type_via_keystroke(call.text,
                                                          call.fails).events
                /\ call.method # "keystroke"
                     => call.events = _type_via_sendinput(call.text,
                                                call.typing_delay).events

\* type_text(None) has returned under the keystroke method.
C26_Witness ==
    /\ call.op = "type_text" /\ call.text = None
    /\ call.method = "keystroke" /\ call.result = "True"
    /\ call.events = <<>>

\* C27: a load that follows a save returns the Config saved, field for
\* field; a load of an object whose keys are all fields of Config returns
\* for every key the value stored under it and for every other field the
\* default.
C27_SaveLoadRoundTrip ==
    /\ (call.op = "load" /\ call.fresh)
        => (call.raised = "none" /\ call.config = call.written)
    /\ (call.op = "load" /\ config_file.state = "object"
        /\ DOMAIN config_file.members \subseteq Fields)
        => /\ call.raised = "none"
           /\ \A f \in Fields :
                IF f \in DOMAIN config_file.members
                THEN dumps(call.config[f]) = config_file.members[f]
                ELSE call.config[f] = Defaults[f]

\* A Config with play_sounds off and the microphone chosen by name has
\* been saved and loaded back.
C27_Witness ==
    /\ call.op = "load" /\ call.fresh
    /\ call.written.play_sounds = PyBool(FALSE)
    /\ call.written.input_device = PyStr("USB Mic")
    /\ call.config = call.written

\* C28: load returns a Config and raises nothing, whatever the file
\* holds; an object with an unknown key gives the stored value of every
\* known key in it and the default of every other field; no file and a
\* file that is no JSON give the defaults.
C28_LoadNeverFails ==
    (call.op = "load")
        => /\ call.raised = "none"
           /\ config_file.state = "object"
               => \A f \in Fields :
                    IF f \in DOMAIN config_file.members
                    THEN dumps(call.config[f]) = config_file.members[f]
                    ELSE call.config[f] = Defaults[f]
           /\ config_file.state \in {"absent", "not_json"}
               => call.config = Defaults

\* C29: a step of the hotkey callbacks leaves _is_recording,
\* _is_processing, _last_stop_time, the recorder with its streams, the
\* transcriber and the workers as they are and clears neither pending
\* flag; _pending_start is cleared only by the first statement of the
\* poll tick and _pending_stop only by its second.
C29_HotkeyWritesOnlyPendingFlags ==
    [][ /\ (hk_pc' # hk_pc \/ hotkey_active' # hotkey_active)
            => /\ UNCHANGED <<is_recording, is_processing, since_last_stop,
                              notice, main_pc, sigq, recVars, trVars,
                              wkVars>>
               /\ pending_start => pending_start'
               /\ pending_stop => pending_stop'
        /\ (pending_start /\ ~pending_start')
            => (main_pc = "loop" /\ main_pc' = "start_guard")
        /\ (pending_stop /\ ~pending_stop')
            => (main_pc = "tick_stop"
                /\ hk_pc' = hk_pc /\ hotkey_active' = hotkey_active) ]_vars

\* The tick has taken the start a press asked for, and the release of
\* that press has set _pending_stop before the tick looks at it.
C29_Witness ==
    /\ main_pc = "start_guard" /\ ~pending_start
    /\ pending_stop /\ origin.stop = origin.cur /\ origin.cur > 0
    /\ hk_pc = "idle" /\ ~hotkey_active

\* C30 as stated: the stop timestamp is recorded at the transition from
\* Processing to Idle, so a press whose callback runs from its first to
\* its last statement in Idle and within the cooldown window after that
\* transition sets no _pending_start.
C30_DebouncedAfterFinish ==
    [][ (hk_pc = "p_set" /\ hk_pc' = "idle" /\ pending_start')
            => ~(/\ press_ctx.state = "Idle" /\ press_ctx.after_finish
                 /\ since_finish < Cooldown) ]_vars

\* C30, amended: the stop timestamp is recorded by _do_stop_recording, at
\* the transition from Recording to Processing, and nowhere else;
\* _finish_processing leaves it as it is; the debounce test of a press
\* turns the press away exactly when it runs within the cooldown window
\* after that stop, however long ago Processing ended.
C30_StampedAtStop ==
    [][ /\ (main_pc = "stop_w2" /\ main_pc' # "stop_w2")
            => (since_last_stop' = 0 /\ is_processing')
        /\ (since_last_stop' < since_last_stop) => main_pc = "stop_w2"
        /\ (is_processing /\ ~is_processing')
            => (since_last_stop' = since_last_stop /\ since_finish' = 0)
        /\ (hk_pc = "p_time" /\ hk_pc' # "p_time")
            => /\ hk_pc' = (IF since_last_stop < Cooldown THEN "idle"
                            ELSE "p_set")
               /\ pending_start' = pending_start ]_vars

\* A press that arrived in Idle less than the cooldown after Processing
\* ended, and at least the cooldown after the stop, is about to set
\* _pending_start.
C30_Witness ==
    /\ hk_pc = "p_set" /\ press_ctx.state = "Idle"
    /\ press_ctx.after_finish /\ ~press_ctx.in_window
    /\ since_finish < Cooldown /\ since_last_stop = Cooldown
    /\ ~is_recording /\ ~is_processing

\* C31: AudioRecorder.stop() on an open stream leaves recording false, the
\* handle detached and cleanup_pending true, and returns while the teardown
\* of that stream has not run yet; the step that ends a teardown thread
\* leaves cleanup_pending false, whether abort/close raised or not, and
\* nothing else makes cleanup_pending false.
C31_StopSetsCleanupPending ==
    [][ /\ (main_pc = "stop_w2" /\ main_pc' # "stop_w2" /\ stream # 0)
            => /\ ~recording' /\ stream' = 0
               /\ cleanup_pending'
               /\ cleanups'[stream] = "run"
               /\ streams'[stream] = streams[stream]
        /\ \A s \in Ids :
             (cleanups[s] = "finally" /\ cleanups'[s] = "done")
                => ~cleanup_pending'
        /\ (cleanup_pending /\ ~cleanup_pending')
             => \E s \in Ids : cleanups[s] = "finally" /\ cleanups'[s] = "done"
      ]_vars

\* A teardown whose abort/close raised has finished after a stop on an
\* open stream: the handle is still active, and cleanup_pending is false.
C31_Witness ==
    /\ \E s \in Ids : cleanups[s] = "done" /\ streams[s] = "active"
    /\ ~cleanup_pending /\ ~recording /\ stream = 0 /\ is_processing

\* C32: when the model construction of the startup pre-load fails for good,
\* main ends with the exception: the lock acquired at startup has been
\* released, no MickeyApp exists (no listener, no stream, no worker, no
\* pending flag, no result), and none is ever created or run afterwards.
C32_PreloadFailureReleasesLock ==
    /\ [](app_pc = "failed" =>
            /\ lock_fd = "released"
            /\ ~transcriber.model
            /\ ~hotkey_active /\ presses = 0 /\ opened = 0 /\ workers = {}
            /\ ~pending_start /\ ~pending_stop
            /\ ~is_recording /\ ~is_processing /\ sigq = <<>>)
    /\ [][ /\ (app_pc = "failed" => app_pc' = "failed")
           /\ (app_pc' = "failed" /\ app_pc # "failed")
                => (app_pc = "boot" /\ lock_fd = "locked") ]_vars

\* The pre-load has failed on cuda and on the cpu fallback, and main has
\* ended with the lock released.
C32_Witness ==
    /\ app_pc = "failed" /\ lock_fd = "released"
    /\ transcriber.device = "cpu" /\ ~transcriber.model

\* C33: once the key is up and the release callback has returned, a
\* controller that is Recording has pending_stop set, so that the next poll
\* tick stops the recording: it never stays Recording with the key
\* released and no stop pending.
C33_ReleaseStopsRecording ==
    (is_recording /\ ~hotkey_active /\ hk_pc = "idle") => pending_stop

\* C34: the stop branch of a poll tick never moves a recording to
\* Processing while the key of the press that started it is still held
\* and its max duration is not exceeded.
C34_StopBelongsToCycle ==
    [][ (main_pc = "tick_stop" /\ main_pc' = "stop_w2")
          => ~(/\ hotkey_active /\ origin.rec = presses
               /\ ~exceeded_max_duration) ]_vars

\* C35: pending_start is true only while the controller is Idle, that is
\* while neither _is_recording nor _is_processing is true.
C35_PendingStartOnlyInIdle ==
    pending_start => (~is_recording /\ ~is_processing)

\* C36: cleanup_pending is true whenever a teardown thread spawned by
\* stop() has not finished, whichever cycle it belongs to.
C36_PendingWhileAnyTeardown ==
    Unfinished # {} => cleanup_pending

\* C37: the samples recorder.stop() returns are blocks delivered by the
\* stream that the matching start() opened, and by no other stream; and
\* no block is added to the buffer while recording is false.
C37_StopReturnsOwnBlocks ==
    [][ /\ (main_pc = "stop_w2" /\ main_pc' # "stop_w2")
            => \A i \in 1..Len(audio_data) : audio_data[i] = stream
        /\ ~recording => Len(audio_data') <= Len(audio_data) ]_vars

\* C38: between handlers of the main thread the indicator shows the
\* controller's state: the recording state while Recording, the processing
\* state while Processing, hidden while Idle.
C38_IndicatorFollowsState ==
    main_pc = "loop" =>
        indicator = (IF is_recording THEN "recording"
                     ELSE IF is_processing THEN "processing"
                     ELSE "hidden")

\* C39: once the max-duration cutoff has moved a recording to Processing
\* while the key of the press that started it is still held, and until
\* the key is pressed again, no recording starts, no further stop is
\* carried out, and the release callback of that key sets neither pending
\* flag; the listener makes no press callback while the key is held.
C39_NoRestartWhileHeld ==
    [][ /\ (origin.cut # 0)
            => /\ ~(~is_recording /\ is_recording')
               /\ ~(main_pc = "tick_stop" /\ main_pc' = "stop_w2")
               /\ ~(~pending_start /\ pending_start')
               /\ (hk_pc \in {"r_ps", "r_set"} /\ hk_pc' # hk_pc)
                    => UNCHANGED <<pending_start, pending_stop>>
        /\ hotkey_active => presses' = presses ]_vars

\* The cutoff has stopped the recording with the key held, the cycle has
\* ended, and the key has been released since: the controller is Idle and
\* no flag is pending.
C39_Witness ==
    /\ origin.cut = 1 /\ presses = 1 /\ ~hotkey_active /\ hk_pc = "idle"
    /\ main_pc = "loop" /\ ~is_recording /\ ~is_processing
    /\ ~pending_start /\ ~pending_stop /\ workers = {} /\ sigq = <<>>

====
